---- MODULE Spec2Model ----
(***************************************************************************)
(* Request lifecycle of the Next.js API-route wrappers.                    *)
(*                                                                         *)
(*   packages/nextjs/src/utils/withSentry.ts           withSentry,         *)
(*                                  wrapEndMethod, finishSentryProcessing  *)
(*   packages/nextjs/src/config/wrappers/withSentryAPI.ts   withSentryAPI  *)
(*   packages/nextjs/src/config/wrappers/withSentryGetServerSideProps.ts   *)
(*                                                                         *)
(* Strings are sequences of one-character strings, so that upper-casing,   *)
(* concatenation and replacement are computed and not assumed.  The event  *)
(* pipeline (startTransaction, captureException, flush, the Transaction    *)
(* methods) is an interface: the model records the calls made on it.       *)
(***************************************************************************)
EXTENDS Naturals, Sequences, FiniteSets, TLC

\* ---------------------------------------------------------------- bounds
NumRequests == 2    \* requests in flight at once
MaxEndCalls == 2    \* calls of res.end() made on one response
MaxProxyLoads == 2  \* loads of a page through the proxy marker that are followed
MaxStatements == 2  \* statements of a user module
MaxIdentifiers == 3 \* Identifier nodes of a module searched for an alias
MaxCalls == 2       \* calls of getInitialProps on one page

\* ------------------------------------------------------- program constants
ERROR_STATUS == 500        \* res.statusCode = 500
OK_STATUS == 200           \* Node's default ServerResponse.statusCode

Requests == 1 .. NumRequests
\* undefined, where a string is expected; no string of the model equals it
None == <<"undefined">>
\* res.__sentryTransaction when nothing was attached
NoTx == <<0, 0>>

\* ---------------------------------------------------------------- strings
Upper == [c \in {"g", "e", "t", "p", "o", "s", "u"} |->
            CASE c = "g" -> "G" [] c = "e" -> "E" [] c = "t" -> "T"
              [] c = "p" -> "P" [] c = "o" -> "O" [] c = "s" -> "S" [] c = "u" -> "U"]

\* String.prototype.toUpperCase
toUpperCase(s) == [i \in 1 .. Len(s) |-> IF s[i] \in DOMAIN Upper THEN Upper[s[i]] ELSE s[i]]

\* Whether pat occurs in s at position i.
OccursAt(s, pat, i) ==
  /\ i + Len(pat) - 1 <= Len(s)
  /\ \A k \in 1 .. Len(pat) : s[i + k - 1] = pat[k]

\* The replacement text of String.prototype.replace (GetSubstitution) for a string
\* pattern: $$ is a dollar sign, $& the matched text, $` the text before the match
\* and $' the text after it; any other character stands for itself.
RECURSIVE GetSubstitution(_, _, _, _)
GetSubstitution(matched, before, after, rep) ==
  IF rep = <<>> THEN <<>>
  ELSE IF rep[1] = "$" /\ Len(rep) >= 2 /\ rep[2] \in {"$", "&", "`", "'"}
    THEN (CASE rep[2] = "$" -> <<"$">>
            [] rep[2] = "&" -> matched
            [] rep[2] = "`" -> before
            [] rep[2] = "'" -> after)
           \o GetSubstitution(matched, before, after, SubSeq(rep, 3, Len(rep)))
  ELSE <<rep[1]>> \o GetSubstitution(matched, before, after, Tail(rep))

\* String.prototype.replace(pattern, replacement) with a string pattern: only the
\* first occurrence is replaced (the empty pattern matches at the start).
replace(s, pat, rep) ==
  LET hits == {i \in 1 .. Len(s) + 1 : OccursAt(s, pat, i)}
  IN IF hits = {} THEN s
     ELSE LET i == CHOOSE j \in hits : \A k \in hits : j <= k
              before == SubSeq(s, 1, i - 1)
              after == SubSeq(s, i + Len(pat), Len(s))
          IN before \o GetSubstitution(pat, before, after, rep) \o after

\* stripUrlQueryAndFragment: the url up to its first '?' or '#'.
stripUrlQueryAndFragment(url) ==
  LET cut == {i \in 1 .. Len(url) : url[i] \in {"?", "#"}}
  IN IF cut = {} THEN url
     ELSE SubSeq(url, 1, (CHOOSE j \in cut : \A k \in cut : j <= k) - 1)

\* for (const [key, value] of Object.entries(req.query))
\*   reqPath = reqPath.replace(`${value}`, `[${key}]`)
RECURSIVE replaceParams(_, _)
replaceParams(reqPath, query) ==
  IF query = <<>> THEN reqPath
  ELSE replaceParams(replace(reqPath, query[1][2], <<"[">> \o query[1][1] \o <<"]">>),
                     Tail(query))

\* const reqMethod = `${(req.method || 'GET').toUpperCase()} `
reqMethod(req) ==
  toUpperCase(IF req.method = None \/ req.method = <<>> THEN <<"G", "E", "T">> ELSE req.method)
    \o <<" ">>

\* A JavaScript value is falsy here when it is undefined or the empty string.
Truthy(v) == v # None /\ v # <<>>

\* req.query: undefined, or an object whose entries are [key, value] pairs in order.
NoQuery == [defined |-> FALSE, entries |-> <<>>]
QueryOf(entries) == [defined |-> TRUE, entries |-> entries]

\* The path used when no parameterized route is at hand (lines 90-100).
fallbackPath(req) ==
  IF ~req.query.defined THEN stripUrlQueryAndFragment(req.url)
  ELSE replaceParams(stripUrlQueryAndFragment(req.url), req.query.entries)

\* ------------------------------------------------------------ thrown values
\* A thrown value is an object or a primitive; objectify(e) wraps a primitive in its
\* wrapper class (string -> String) and returns an object as it is.
NoValue == [kind |-> "none", val |-> "none"]
Thrown == {[kind |-> "object", val |-> "e"], [kind |-> "primitive", val |-> "e"]}
Returned == {[kind |-> "primitive", val |-> "v"]}
TypeError == [kind |-> "object", val |-> "TypeError"]
FlushError == [kind |-> "object", val |-> "FlushError"]

objectify(e) == IF e.kind = "primitive" THEN [kind |-> "wrapper", val |-> e.val] ELSE e

\* ----------------------------------------------------------------- handlers
\* A handler is the chain of function objects from the outermost wrapper to the
\* user's function; each carries the properties set on it: __sentry_route__ and
\* whether it has an own property __sentry_wrapped__.
origFunction == <<[type |-> "orig", route |-> None, wrapped |-> FALSE]>>

\* withSentry returns a new async function; nothing is set on it.
withSentry(origHandler) ==
  <<[type |-> "withSentry", route |-> None, wrapped |-> FALSE]>> \o origHandler

withSentryAPI(maybeWrappedHandler, parameterizedRoute) ==
  LET h == [maybeWrappedHandler EXCEPT ![1].route = parameterizedRoute]
  IN IF ~h[1].wrapped
       THEN withSentry(h)
       ELSE <<[type |-> "newWrapper", route |-> None, wrapped |-> FALSE]>> \o h

\* -------------------------------------------------------------------- state
VARIABLES
  tracing,        \* hasTracingEnabled()
  moduleThis,     \* what `this` is inside withSentry's arrow functions: the module's
                  \* top-level this, "undefined" (ES module) or "exports" (CommonJS)
  rq,             \* per request: inputs, position, response, pending work, calls seen
  transactions    \* every transaction startTransaction returned, by reference

vars == <<tracing, moduleThis, rq, transactions>>

\* The five calls made for one request: startTransaction (line 104), origHandler
\* (127), transaction.finish (226), flush (237) and origEnd (207), numbered in the
\* order in which one pass through the code makes them.
EventOrder ==
  [startTransaction |-> 1, handler |-> 2, finish |-> 3, flush |-> 4, origEnd |-> 5]

\* Record an event on request record q: reordered becomes true when an event that
\* comes later in EventOrder has already happened.
Event(q, name) ==
  [q EXCEPT !.reordered = @ \/ q.maxEvent > EventOrder[name],
            !.maxEvent = IF @ > EventOrder[name] THEN @ ELSE EventOrder[name]]

\* ------------------------------------------------------------- transactions
Started(t, r) == {ref \in DOMAIN t : ref[1] = r}

\* startTransaction(context): a new transaction, referred to by <<request, k>>.
startTransaction(t, r, name, op, source, layer) ==
  LET ref == <<r, Cardinality(Started(t, r)) + 1>>
  IN [ref |-> ref,
      t |-> t @@ (ref :> [name |-> name, op |-> op, source |-> source, layer |-> layer,
                          status |-> 0,
                          finishCalls |-> 0, statusAtFinish |-> 0, callers |-> {}])]

\* transaction.setHttpStatus(code), called on behalf of request r
setHttpStatus(t, ref, code, r) ==
  [t EXCEPT ![ref].status = code, ![ref].callers = @ \cup {r}]

\* transaction.finish(), called on behalf of request r
finish(t, ref, r) ==
  [t EXCEPT ![ref].finishCalls = @ + 1,
            ![ref].statusAtFinish = IF t[ref].finishCalls = 0 THEN t[ref].status ELSE @,
            ![ref].callers = @ \cup {r}]

\* Mutant: the transaction is kept in one slot that all requests share, not on the
\* response.
TransactionOfSharedSlot(q, t) ==
  IF DOMAIN t = {} THEN NoTx
  ELSE CHOOSE ref \in DOMAIN t :
         \A o \in DOMAIN t : o[1] < ref[1] \/ (o[1] = ref[1] /\ o[2] <= ref[2])

\* const { __sentryTransaction: transaction } = res
TransactionOf(q, t) == q.res.tx

\* ------------------------------------------------- finishSentryProcessing
\* The synchronous part of finishSentryProcessing(res) for request r in world
\* w = [q |-> request record, t |-> transactions]: with a transaction, setHttpStatus
\* and a setImmediate callback; without, straight to flush(2000).
\* Mutant: flush is started without awaiting transactionFinished.
fspBeginNoAwait(w, r) ==
  LET tx == TransactionOf(w.q, w.t)
  IN [q |-> [Event(w.q, "flush") EXCEPT !.flushStarted = @ + 1],
      t |-> IF tx # NoTx THEN setHttpStatus(w.t, tx, w.q.res.statusCode, r) ELSE w.t,
      st |-> "flush", tx |-> tx]

\* Mutant: transaction.finish() is called at once, not from a setImmediate callback.
fspBeginSameTick(w, r) ==
  LET tx == TransactionOf(w.q, w.t)
  IN [q |-> [Event(Event(w.q, "finish"), "flush") EXCEPT !.flushStarted = @ + 1],
      t |-> IF tx # NoTx
              THEN finish(setHttpStatus(w.t, tx, w.q.res.statusCode, r), tx, r)
              ELSE w.t,
      st |-> "flush", tx |-> tx]

fspBegin(w, r) ==
  LET tx == TransactionOf(w.q, w.t)
  IN IF tx # NoTx
       THEN [q |-> w.q, t |-> setHttpStatus(w.t, tx, w.q.res.statusCode, r),
             st |-> "immediate", tx |-> tx]
       ELSE [q |-> [Event(w.q, "flush") EXCEPT !.flushStarted = @ + 1], t |-> w.t,
             st |-> "flush", tx |-> NoTx]

\* try { await flush(2000) } catch (e) { log }: how finishSentryProcessing settles
\* for each way flush settles (resolves true, resolves false on timeout, rejects).
FlushOutcomes == {"true", "timeout", "reject"}
\* Mutant: no try/catch around flush.
fspSettlesUncaught(outcome) == IF outcome = "reject" THEN "rejected" ELSE "resolved"

fspSettles(outcome) == "resolved"

\* Append a run of finishSentryProcessing to the pending work of the request.
Pending(w, r, kind, level) ==
  LET b == fspBegin(w, r)
  IN [q |-> [b.q EXCEPT !.tasks = Append(@, [kind |-> kind, level |-> level,
                                             st |-> b.st, tx |-> b.tx,
                                             call |-> 0, this |-> 0, args |-> <<>>])],
      t |-> b.t]

\* ---------------------------------------------------------------- throwing
\* The nearest withSentry layer around the function at index i, or 0.
Catcher(h, i) ==
  LET c == {j \in 1 .. i - 1 : h[j].type = "withSentry"}
  IN IF c = {} THEN 0 ELSE CHOOSE j \in c : \A k \in c : k <= j

\* Mutant: the catch block sets the status only after finishSentryProcessing.
ThrowStatusLate(w, r, i, e) ==
  LET j == Catcher(w.q.handler, i)
      p == Pending([q |-> [w.q EXCEPT
                             !.pc = "catch", !.layer = j, !.err = objectify(e),
                             !.caught = @ + 1,
                             !.captureCalls = IF w.q.hasScope THEN @ + 1 ELSE @],
                    t |-> w.t], r, "catch", j)
  IN IF j = 0
       THEN [q |-> [w.q EXCEPT !.pc = "rejected", !.layer = 0,
                               !.result = [kind |-> "rejected", value |-> e]],
             t |-> w.t]
       ELSE [q |-> [p.q EXCEPT !.res.statusCode = ERROR_STATUS,
                               !.res.statusMessage = "Internal Server Error"],
             t |-> p.t]

\* Mutant: the catch block rethrows without awaiting finishSentryProcessing.
ThrowNoAwait(w, r, i, e) ==
  [q |-> [w.q EXCEPT !.pc = "rejected", !.layer = 0, !.caught = @ + 1,
                     !.captureCalls = IF w.q.hasScope THEN @ + 1 ELSE @,
                     !.res.statusCode = ERROR_STATUS,
                     !.res.statusMessage = "Internal Server Error",
                     !.result = [kind |-> "rejected", value |-> objectify(e)]],
   t |-> w.t]

\* Value e is thrown out of the function at index i of the handler chain: the catch
\* block of the withSentry layer around it runs up to `await
\* finishSentryProcessing(res)`, or, with no layer left, the promise given to the
\* framework rejects with e.
Throw(w, r, i, e) ==
  LET j == Catcher(w.q.handler, i)
  IN IF j = 0
       THEN [q |-> [w.q EXCEPT !.pc = "rejected", !.layer = 0,
                               !.result = [kind |-> "rejected", value |-> e]],
             t |-> w.t]
       ELSE Pending([q |-> [w.q EXCEPT
                              !.pc = "catch", !.layer = j, !.err = objectify(e),
                              !.caught = @ + 1,
                              !.captureCalls = IF w.q.hasScope THEN @ + 1 ELSE @,
                              !.res.statusCode = ERROR_STATUS,
                              !.res.statusMessage = "Internal Server Error"],
                     t |-> w.t], r, "catch", j)

\* ------------------------------------------------------------------ actions
Apply(r, w) ==
  /\ rq' = [rq EXCEPT ![r] = w.q]
  /\ transactions' = w.t
  /\ UNCHANGED <<tracing, moduleThis>>

World(r) == [q |-> rq[r], t |-> transactions]

\* let reqPath = origHandler.__sentry_route__ || this.__sentry_route__, then the
\* fallback.  `this` is the module's: reading a property of undefined throws, and the
\* exports object has no __sentry_route__.
readsThis(origHandler) == ~Truthy(origHandler.route)
reqPath(origHandler, req) ==
  IF Truthy(origHandler.route) THEN origHandler.route ELSE fallbackPath(req)

\* Mutant: the user's function is called a second time.
callOrigHandlerTwice(q) ==
  IF q.handler[q.layer + 1].type = "orig"
    THEN [Event(q, "handler") EXCEPT !.pc = "handler", !.layer = q.layer + 1,
                                     !.handlerCalls = @ + 2]
    ELSE [q EXCEPT !.pc = "call", !.layer = q.layer + 1]

\* origHandler(req, res): the next function of the chain is called; the user's
\* function starts to execute.
callOrigHandler(q) ==
  IF q.handler[q.layer + 1].type = "orig"
    THEN [Event(q, "handler") EXCEPT !.pc = "handler", !.layer = q.layer + 1,
                                     !.handlerCalls = @ + 1,
                                     !.handlerArguments = Append(@, <<q.req, "res">>)]
    ELSE [q EXCEPT !.pc = "call", !.layer = q.layer + 1]

\* The function withSentry returned is called with (req, res), lines 54-127: res.end
\* is wrapped, the transaction is started and attached to res when there is a scope
\* and tracing is enabled, and origHandler is called.  (The wrapper withSentryAPI
\* builds around an already flagged handler only calls that handler.)
wrappedHandler(r) ==
  LET q == rq[r]
      f == q.handler[q.layer]
      origHandler == q.handler[q.layer + 1]
      q1 == [q EXCEPT !.res.endWraps = @ + 1]
  IN /\ r \in DOMAIN rq
     /\ q.pc = "call"
     /\ IF f.type = "newWrapper"
          THEN Apply(r, [q |-> callOrigHandler(q), t |-> transactions])
        ELSE IF ~(q.hasScope /\ tracing)
          THEN Apply(r, [q |-> callOrigHandler(q1), t |-> transactions])
        ELSE IF readsThis(origHandler) /\ moduleThis = "undefined"
          THEN Apply(r, Throw([q |-> q1, t |-> transactions], r, q.layer, TypeError))
        ELSE LET s == startTransaction(transactions, r,
                        reqMethod(q.req) \o reqPath(origHandler, q.req),
                        "http.server", "route", q.layer)
             IN Apply(r, [q |-> callOrigHandler(
                                  [Event(q1, "startTransaction") EXCEPT !.res.tx = s.ref]),
                          t |-> s.t])

\* The arguments of the k-th call of res.end() on a response: res.end(body, encoding)
\* and res.end() in turn.
EndArguments(k) == IF k % 2 = 1 THEN <<"body", "utf8">> ELSE <<>>

\* Mutant: newEnd keeps none of its arguments.
newEndDropsArguments(w, this, args) ==
  LET p == Pending([q |-> [w.q EXCEPT !.endCalls = @ + 1], t |-> w.t], this, "end",
                   w.q.res.endWraps)
      n == Len(p.q.tasks)
  IN [p EXCEPT !.q.tasks[n].call = w.q.endCalls + 1, !.q.tasks[n].this = this]

\* newEnd, the wrapped res.end, called on response `this` with args: the outermost of
\* res.endWraps wrappers starts finishSentryProcessing(this) and keeps this and args
\* for origEnd.call(this, ...args).  Responses are named by their requests.
newEnd(w, this, args) ==
  LET p == Pending([q |-> [w.q EXCEPT !.endCalls = @ + 1], t |-> w.t], this, "end",
                   w.q.res.endWraps)
      n == Len(p.q.tasks)
  IN [p EXCEPT !.q.tasks[n].call = w.q.endCalls + 1, !.q.tasks[n].this = this,
               !.q.tasks[n].args = args]

\* The user's handler calls res.end(...), awaited or not.
handlerEnd(r) ==
  /\ r \in DOMAIN rq
  /\ rq[r].pc = "handler"
  /\ rq[r].endCalls < rq[r].endLimit
  /\ Apply(r, newEnd([q |-> Event(rq[r], "handler"), t |-> transactions], r,
                      EndArguments(rq[r].endCalls + 1)))

\* The user's handler executes a further statement.
handlerStep(r) ==
  /\ r \in DOMAIN rq
  /\ rq[r].pc = "handler"
  /\ Apply(r, [q |-> Event(rq[r], "handler"), t |-> transactions])

\* Mutant: a layer awaits origHandler and returns nothing.
layerReturnsNothing(f, handlerResult) == NoValue

\* What the function f of the chain returns when the function it calls returned
\* handlerResult: `return handlerResult` (line 138), and in newWrapper
\* `return maybeWrappedHandler.call(...)`.
layerReturns(f, handlerResult) == handlerResult

\* The value the outermost function of chain h resolves with when the user's function
\* returns v.
RECURSIVE returnThrough(_, _)
returnThrough(h, v) ==
  IF Head(h).type = "orig" THEN v ELSE layerReturns(Head(h), returnThrough(Tail(h), v))

\* The user's handler returns (or resolves with) v: every layer returns
\* handlerResult.
handlerReturn(r, v) ==
  /\ r \in DOMAIN rq
  /\ rq[r].pc = "handler"
  /\ Apply(r, [q |-> [Event(rq[r], "handler") EXCEPT
                        !.pc = "resolved", !.layer = 0, !.returned = v,
                        !.result = [kind |-> "resolved",
                                    value |-> returnThrough(rq[r].handler, v)]],
               t |-> transactions])

\* The user's handler throws (or rejects with) e.
handlerThrow(r, e) ==
  /\ r \in DOMAIN rq
  /\ rq[r].pc = "handler"
  /\ Apply(r, Throw([q |-> [Event(rq[r], "handler") EXCEPT !.thrown = e],
                     t |-> transactions], r, rq[r].layer, e))

\* After the wrapped handler rejected, the framework answers the request itself and
\* calls res.end() (the comment at lines 168-171).
frameworkEnd(r) ==
  /\ r \in DOMAIN rq
  /\ rq[r].pc = "rejected"
  /\ rq[r].endCalls < rq[r].endLimit
  /\ rq[r].res.endWraps > 0
  /\ Apply(r, newEnd(World(r), r, EndArguments(rq[r].endCalls + 1)))

RemoveAt(s, i) == SubSeq(s, 1, i - 1) \o SubSeq(s, i + 1, Len(s))

\* Mutant: the callback finishes the transaction and never calls resolve().
setImmediateCallbackNoResolve(r, i) ==
  LET q == rq[r]
      task == q.tasks[i]
  IN /\ r \in DOMAIN rq
     /\ i \in DOMAIN q.tasks
     /\ task.st = "immediate"
     /\ Apply(r, [q |-> [Event(q, "finish") EXCEPT !.tasks[i].st = "unresolved"],
                  t |-> finish(transactions, task.tx, r)])

\* The setImmediate callback of a run of finishSentryProcessing: transaction.finish()
\* and resolve(); the run goes on to flush(2000).
setImmediateCallback(r, i) ==
  LET q == rq[r]
      task == q.tasks[i]
  IN /\ r \in DOMAIN rq
     /\ i \in DOMAIN q.tasks
     /\ task.st = "immediate"
     /\ Apply(r, [q |-> [Event(Event(q, "finish"), "flush") EXCEPT
                          !.tasks[i].st = "flush", !.flushStarted = @ + 1],
                  t |-> finish(transactions, task.tx, r)])

\* What follows a run of finishSentryProcessing that resolved: in newEnd,
\* origEnd.call(this, ...args), which is the next wrapper inside or the response's own
\* end; in the catch block, throw objectifiedErr.
afterFinishSentryProcessing(w, r, i) ==
  LET task == w.q.tasks[i]
      rest == [w.q EXCEPT !.tasks = RemoveAt(@, i)]
  IN IF task.kind = "catch"
       THEN Throw([q |-> rest, t |-> w.t], r, task.level, w.q.err)
     ELSE IF task.level > 1
       THEN LET b == fspBegin(w, r)
            IN [q |-> [b.q EXCEPT !.tasks[i] = [kind |-> "end", level |-> task.level - 1,
                                                st |-> b.st, tx |-> b.tx,
                                                call |-> task.call, this |-> task.this,
                                                args |-> task.args]],
                t |-> b.t]
     ELSE [q |-> [Event(rest, "origEnd") EXCEPT
                    !.origEndCalls = @ + 1,
                    !.origEndLog = Append(@, [call |-> task.call, this |-> task.this,
                                              args |-> task.args])],
           t |-> w.t]

\* A run of finishSentryProcessing that rejected: newEnd rejects without calling
\* origEnd; the catch block throws the flush error instead of objectifiedErr.
afterRejection(w, r, i) ==
  LET task == w.q.tasks[i]
      rest == [w.q EXCEPT !.tasks = RemoveAt(@, i), !.endRejected = @ \/ task.kind = "end"]
  IN IF task.kind = "catch"
       THEN Throw([q |-> rest, t |-> w.t], r, task.level, FlushError)
       ELSE [q |-> rest, t |-> w.t]

\* flush(2000) settles for run i of finishSentryProcessing.
flushSettles(r, i, outcome) ==
  LET q == [rq[r] EXCEPT !.flushSettled = @ + 1,
                         !.flushRejects = IF outcome = "reject" THEN @ + 1 ELSE @]
      w == [q |-> q, t |-> transactions]
  IN /\ r \in DOMAIN rq
     /\ i \in DOMAIN rq[r].tasks
     /\ rq[r].tasks[i].st = "flush"
     /\ IF fspSettles(outcome) = "resolved"
          THEN Apply(r, afterFinishSentryProcessing(w, r, i))
          ELSE Apply(r, afterRejection(w, r, i))

\* --------------------------------------------------------------------- inputs
\* The page /u/[i] and a request for /u/7.
Route == <<"/", "u", "/", "[", "i", "]">>
Url == <<"/", "u", "/", "7">>
Query == QueryOf(<< << <<"i">>, <<"7">> >> >>)
LifecycleReqs == {[method |-> <<"g", "e", "t">>, url |-> Url, query |-> Query]}

\* What a route file can export as its handler: the user's function, auto-wrapped by
\* the loader; a handler the user wrapped with withSentry, auto-wrapped as well; a
\* handler the user wrapped, with no auto-wrapping.
Handlers(route) ==
  {withSentryAPI(origFunction, route),
   withSentryAPI(withSentry(origFunction), route),
   withSentry(origFunction)}

NewResponse == [statusCode |-> OK_STATUS, statusMessage |-> "OK", tx |-> NoTx, endWraps |-> 0]

NewRequest(handler, hasScope, req, endLimit) ==
  [handler |-> handler, hasScope |-> hasScope, req |-> req, endLimit |-> endLimit,
   pc |-> "call", layer |-> 1,
   res |-> NewResponse, tasks |-> <<>>,
   handlerCalls |-> 0, captureCalls |-> 0, caught |-> 0, endCalls |-> 0,
   origEndCalls |-> 0, origEndLog |-> <<>>, flushStarted |-> 0, flushSettled |-> 0,
   flushRejects |-> 0, endRejected |-> FALSE,
   thrown |-> NoValue, returned |-> NoValue, handlerArguments |-> <<>>,
   err |-> NoValue, result |-> [kind |-> "pending", value |-> NoValue],
   maxEvent |-> 0, reordered |-> FALSE]

InitialRequests(reqs) ==
  {NewRequest(h, s, req, MaxEndCalls) : h \in Handlers(Route), s \in BOOLEAN, req \in reqs}

OneRequest == {1}

\* One request, every handler shape and configuration.
Init ==
  /\ tracing \in BOOLEAN
  /\ moduleThis \in {"undefined", "exports"}
  /\ rq \in [OneRequest -> InitialRequests(LifecycleReqs)]
  /\ transactions = <<>>

Next ==
  \E r \in Requests :
    \/ wrappedHandler(r)
    \/ handlerEnd(r)
    \/ handlerStep(r)
    \/ \E v \in Returned : handlerReturn(r, v)
    \/ \E e \in Thrown : handlerThrow(r, e)
    \/ frameworkEnd(r)
    \/ \E i \in 1 .. MaxEndCalls + 1 : setImmediateCallback(r, i)
    \/ \E i \in 1 .. MaxEndCalls + 1, o \in FlushOutcomes : flushSettles(r, i, o)

Spec == Init /\ [][Next]_vars

\* Requests that differ in what the transaction name is computed from: the method
\* (absent, empty, lower, mixed and upper case), a query string on the url, req.query
\* absent, a parameter value that also occurs earlier in the path (/u/u), and a
\* query-string key made of the characters $&.
Methods ==
  {None, <<>>, <<"g", "e", "t">>, <<"P", "u", "t">>, <<"P", "O", "S", "T">>}
Targets ==
  {[url |-> Url, query |-> Query],
   [url |-> Url, query |-> NoQuery],
   [url |-> Url \o <<"?", "i", "=", "7">>, query |-> Query],
   [url |-> <<"/", "u", "/", "u">>, query |-> QueryOf(<< << <<"i">>, <<"u">> >> >>)],
   [url |-> Url \o <<"?", "$", "&", "=", "u">>,
    query |-> QueryOf(<< << <<"i">>, <<"7">> >>, << <<"$", "&">>, <<"u">> >> >>)]}
NamingReqs ==
  {[method |-> m, url |-> t.url, query |-> t.query] : m \in Methods, t \in Targets}

InitNames ==
  /\ tracing \in BOOLEAN
  /\ moduleThis \in {"undefined", "exports"}
  /\ rq \in [OneRequest -> InitialRequests(NamingReqs)]
  /\ transactions = <<>>

\* The wrappers run up to the call of the user's function.
NextNames == \E r \in Requests : wrappedHandler(r)

SpecNames == InitNames /\ [][NextNames]_vars

\* ------------------------------------------------ withSentryGetServerSideProps
\* callOriginal(origFunction, context) of ./wrapperUtils receives the user's function
\* and the context and nothing else.  It calls origFunction(context); whether it
\* starts a transaction, and with which op and source, is left open, and the name of
\* a transaction it starts is computed from the context.
DataFetcherOps == {"nextjs.data.server", "http.server"}
Sources == {"route", "url"}
callOriginal(w, r, starts, op, source) ==
  LET s == startTransaction(w.t, r, stripUrlQueryAndFragment(w.q.context.req.url),
                            op, source, 1)
  IN [q |-> [w.q EXCEPT !.pc = "original", !.origCalls = @ + 1],
      t |-> IF starts THEN s.t ELSE w.t]

\* The async function withSentryGetServerSideProps(origGetServerSideProps, path)
\* returns, called with a context: console.log of the path, then callOriginal.
wrappedGetServerSideProps(r, starts, op, source) ==
  /\ r \in DOMAIN rq
  /\ rq[r].pc = "wrapper"
  /\ starts => tracing
  /\ Apply(r, callOriginal([q |-> [rq[r] EXCEPT !.logged = Append(@, rq[r].path)],
                            t |-> transactions], r, starts, op, source))

\* The user's getServerSideProps returns its props, and so does the wrapper.
origGetServerSidePropsReturns(r, v) ==
  /\ r \in DOMAIN rq
  /\ rq[r].pc = "original"
  /\ Apply(r, [q |-> [rq[r] EXCEPT !.pc = "resolved",
                                   !.result = [kind |-> "resolved", value |-> v]],
               t |-> transactions])

\* The user's getServerSideProps throws.
origGetServerSidePropsThrows(r, e) ==
  /\ r \in DOMAIN rq
  /\ rq[r].pc = "original"
  /\ Apply(r, [q |-> [rq[r] EXCEPT !.pc = "rejected",
                                   !.result = [kind |-> "rejected", value |-> e]],
               t |-> transactions])

\* Pages and the urls they are requested with.
Pages ==
  {[path |-> Route, url |-> Url],
   [path |-> Route, url |-> Url \o <<"?", "i", "=", "7">>],
   [path |-> Route, url |-> <<"/", "u", "/", "u">>],
   [path |-> <<"/", "u">>, url |-> <<"/", "u">>],
   [path |-> <<"/", "[", "i", "]">>, url |-> <<"/", "7">>],
   [path |-> <<"/", "[", "i", "]">>, url |-> <<"/", "u">>]}

GetServerSidePropsCalls ==
  {[path |-> p.path, context |-> [req |-> [url |-> p.url], res |-> NewResponse],
    pc |-> "wrapper", logged |-> <<>>, origCalls |-> 0,
    result |-> [kind |-> "pending", value |-> NoValue]] : p \in Pages}

InitGSSP ==
  /\ tracing \in BOOLEAN
  /\ moduleThis \in {"undefined", "exports"}
  /\ rq \in [OneRequest -> GetServerSidePropsCalls]
  /\ transactions = <<>>

NextGSSP ==
  \E r \in Requests :
    \/ \E starts \in BOOLEAN, op \in DataFetcherOps, source \in Sources :
         wrappedGetServerSideProps(r, starts, op, source)
    \/ \E v \in Returned : origGetServerSidePropsReturns(r, v)
    \/ \E e \in Thrown : origGetServerSidePropsThrows(r, e)

SpecGSSP == InitGSSP /\ [][NextGSSP]_vars

\* The event loop runs every scheduled setImmediate callback, and every flush(2000)
\* settles: it resolves when the queue drains or, with false, when the timeout fires.
Fairness ==
  \A r \in OneRequest :
    /\ WF_vars(\E i \in 1 .. MaxEndCalls + 1 : setImmediateCallback(r, i))
    /\ WF_vars(\E i \in 1 .. MaxEndCalls + 1, o \in FlushOutcomes : flushSettles(r, i, o))

FairSpec == Init /\ [][Next]_vars /\ Fairness

\* Requests in flight at once in a CommonJS build, for route files the loader has
\* auto-wrapped, tracing enabled, each with a scope of its own; each response is ended
\* once, by its handler or by the framework.
ConcurrentRequests ==
  {NewRequest(h, TRUE, req, 1) :
     h \in {withSentryAPI(origFunction, Route), withSentryAPI(withSentry(origFunction), Route)},
     req \in LifecycleReqs}

InitConc ==
  /\ tracing = TRUE
  /\ moduleThis = "exports"
  /\ rq \in [Requests -> ConcurrentRequests]
  /\ transactions = <<>>

\* The steps that touch a transaction; flush settles one way.
NextConc ==
  \E r \in Requests :
    \/ wrappedHandler(r)
    \/ handlerEnd(r)
    \/ \E v \in Returned : handlerReturn(r, v)
    \/ \E e \in {[kind |-> "object", val |-> "e"]} : handlerThrow(r, e)
    \/ frameworkEnd(r)
    \/ \E i \in 1 .. 2 : setImmediateCallback(r, i)
    \/ \E i \in 1 .. 2 : flushSettles(r, i, "true")

SpecConc == InitConc /\ [][NextConc]_vars

\* ------------------------------------------------------------ module ASTs
\* The nodes of a parsed module that the loader's helpers look at.  Names are
\* strings; a re-export has a source, a local export has none.
NoSource == ""
NoName == ""
NoDeclaration == [type |-> "NoDeclaration"]
Identifier(name) == [type |-> "Identifier", name |-> name]
Literal == [type |-> "Literal"]
ArrowFunctionExpression == [type |-> "ArrowFunctionExpression"]
Hole == [type |-> "Hole"]
RestElement(argument) == [type |-> "RestElement", argument |-> argument]
ArrayPattern(elements) == [type |-> "ArrayPattern", elements |-> elements]
Property(key, value) == [type |-> "Property", key |-> key, value |-> value]
ObjectPattern(properties) == [type |-> "ObjectPattern", properties |-> properties]
VariableDeclaration(kind, ids) ==
  [type |-> "VariableDeclaration", kind |-> kind, declarations |-> ids]
FunctionDeclaration(name) == [type |-> "FunctionDeclaration", id |-> name]
ClassDeclaration(name) == [type |-> "ClassDeclaration", id |-> name]
ExportSpecifier(local, exported) ==
  [type |-> "ExportSpecifier", local |-> local, exported |-> exported]
ExportNamedDeclaration(declaration, specifiers, source) ==
  [type |-> "ExportNamedDeclaration", declaration |-> declaration,
   specifiers |-> specifiers, source |-> source]
ExportDefaultDeclaration(declaration) ==
  [type |-> "ExportDefaultDeclaration", declaration |-> declaration]
ExportAllDeclaration(exported, source) ==
  [type |-> "ExportAllDeclaration", exported |-> exported, source |-> source]
ImportDeclaration(local, source) ==
  [type |-> "ImportDeclaration", local |-> local, source |-> source]

\* Mutant: the key of a property counts as a binding.
RECURSIVE PatternIdentifiersAndKeys(_), PatternsIdentifiersAndKeys(_)
PatternIdentifiersAndKeys(p) ==
  CASE p.type = "Identifier" -> <<p.name>>
    [] p.type = "Hole" -> <<>>
    [] p.type = "RestElement" -> PatternIdentifiersAndKeys(p.argument)
    [] p.type = "Property" -> <<p.key>> \o PatternIdentifiersAndKeys(p.value)
    [] p.type = "ArrayPattern" -> PatternsIdentifiersAndKeys(p.elements)
    [] p.type = "ObjectPattern" -> PatternsIdentifiersAndKeys(p.properties)
PatternsIdentifiersAndKeys(ps) ==
  IF ps = <<>> THEN <<>>
  ELSE PatternIdentifiersAndKeys(Head(ps)) \o PatternsIdentifiersAndKeys(Tail(ps))

\* The identifier leaves of a destructuring pattern, left to right: an array pattern
\* gives those of its elements (an elided slot gives none), an object pattern those of
\* its property values and of its rest element, never the keys.
RECURSIVE PatternIdentifiers(_), PatternsIdentifiers(_)
PatternIdentifiers(p) ==
  CASE p.type = "Identifier" -> <<p.name>>
    [] p.type = "Hole" -> <<>>
    [] p.type = "RestElement" -> PatternIdentifiers(p.argument)
    [] p.type = "Property" -> PatternIdentifiers(p.value)
    [] p.type = "ArrayPattern" -> PatternsIdentifiers(p.elements)
    [] p.type = "ObjectPattern" -> PatternsIdentifiers(p.properties)
PatternsIdentifiers(ps) ==
  IF ps = <<>> THEN <<>>
  ELSE PatternIdentifiers(Head(ps)) \o PatternsIdentifiers(Tail(ps))

\* [...new Set(names)]: every name once, at the place of its first occurrence.
RECURSIVE Dedupe(_)
Dedupe(names) ==
  IF names = <<>> THEN <<>>
  ELSE LET front == Dedupe(SubSeq(names, 1, Len(names) - 1))
           last == names[Len(names)]
       IN IF \E i \in DOMAIN front : front[i] = last THEN front ELSE Append(front, last)

RECURSIVE SpecifierNames(_)
SpecifierNames(specifiers) ==
  IF specifiers = <<>> THEN <<>>
  ELSE (IF Head(specifiers).exported = "default" THEN <<>>
        ELSE <<Head(specifiers).exported>>) \o SpecifierNames(Tail(specifiers))

\* The names one statement exports, other than default.
StatementExportIdentifiers(node) ==
  CASE node.type = "ExportNamedDeclaration" ->
         (CASE node.declaration.type = "VariableDeclaration" ->
                 PatternsIdentifiers(node.declaration.declarations)
            [] node.declaration.type \in {"FunctionDeclaration", "ClassDeclaration"} ->
                 <<node.declaration.id>>
            [] OTHER -> <<>>) \o SpecifierNames(node.specifiers)
    [] node.type = "ExportAllDeclaration" ->
         IF node.exported = NoName THEN <<>> ELSE <<node.exported>>
    [] OTHER -> <<>>

RECURSIVE ExportIdentifiersOf(_)
ExportIdentifiersOf(ast) ==
  IF ast = <<>> THEN <<>>
  ELSE StatementExportIdentifiers(Head(ast)) \o ExportIdentifiersOf(Tail(ast))

\* getExportIdentifiers(ast): the names a consumer can import from the module,
\* deduplicated, without default.
getExportIdentifiers(ast) == Dedupe(ExportIdentifiersOf(ast))

\* hasDefaultExport(ast): true for every module.
hasDefaultExport(ast) == TRUE

\* ------------------------------------------------- wrapDataFetchersLoader
\* isESM(userCode): whether the source has import or export statements.
ModuleSyntax ==
  {"ImportDeclaration", "ExportNamedDeclaration", "ExportDefaultDeclaration",
   "ExportAllDeclaration"}
isESM(userCode) == \E i \in DOMAIN userCode.ast : userCode.ast[i].type \in ModuleSyntax

ProxyMarker == "?sentry-proxy-loader"
\* "${this.resourcePath}?sentry-proxy-loader"
ProxyOf(resourcePath) == [path |-> resourcePath, query |-> ProxyMarker]
Package(name) == [path |-> name, query |-> ""]

DataFetchers == {"getServerSideProps", "getStaticProps", "getStaticPaths"}

\* exportedIdentifiers: Array.prototype.filter with the callback of lines 256-272.
RECURSIVE filterDataFetchers(_)
filterDataFetchers(names) ==
  IF names = <<>> THEN <<>>
  ELSE (IF Head(names) \in DataFetchers THEN <<>> ELSE <<Head(names)>>)
         \o filterDataFetchers(Tail(names))

Includes(names, name) == \E i \in DOMAIN names : names[i] = name

\* The statements of the synthesized module, block by block (lines 276-320).
InstrumentationImports ==
  <<[block |-> "imports", type |-> "ImportNamespace", local |-> "sentryNextJsServerSDK",
     source |-> Package("@sentry/nextjs/build/esm/index.server")],
    [block |-> "imports", type |-> "ImportNamespace", local |-> "sentryNextJsClientSDK",
     source |-> Package("@sentry/nextjs/build/esm/index.client")]>>

PassthroughLine(exportedIdentifiers, resourcePath) ==
  <<[block |-> "passthrough", type |-> "ExportFrom", names |-> exportedIdentifiers,
     source |-> ProxyOf(resourcePath)]>>

DefaultExportBlock(resourcePath, route) ==
  <<[block |-> "default", type |-> "ImportAs", imported |-> "default",
     local |-> "_sentry_default", source |-> ProxyOf(resourcePath)],
    [block |-> "default", type |-> "DefineProperty", object |-> "_sentry_default",
     key |-> "getInitialProps", namespace |-> "sentryNextJsClientSDK",
     wrapper |-> "withSentryGetInitialProps",
     args |-> <<"_sentry_default.getInitialProps", "_sentry_default", route>>,
     enumerable |-> TRUE, configurable |-> TRUE, writable |-> TRUE],
    [block |-> "default", type |-> "ExportAs", local |-> "_sentry_default",
     exported |-> "default"]>>

\* The wrappers are withSentryGetServerSideProps, withSentryGetStaticProps and
\* withSentryGetStaticPaths, the aliases _sentry_<name>.
WrapperOf ==
  [getServerSideProps |-> "withSentryGetServerSideProps",
   getStaticProps |-> "withSentryGetStaticProps",
   getStaticPaths |-> "withSentryGetStaticPaths"]
AliasOf ==
  [getServerSideProps |-> "_sentry_getServerSideProps",
   getStaticProps |-> "_sentry_getStaticProps",
   getStaticPaths |-> "_sentry_getStaticPaths"]

DataFetcherBlock(name, resourcePath, route) ==
  <<[block |-> name, type |-> "ImportAs", imported |-> name, local |-> AliasOf[name],
     source |-> ProxyOf(resourcePath)],
    [block |-> name, type |-> "ExportConst", name |-> name,
     namespace |-> "sentryNextJsServerSDK", wrapper |-> WrapperOf[name],
     args |-> <<AliasOf[name], route>>]>>

\* Paths are sequences of characters.  path.resolve(projectDir, 'pages') for an
\* absolute, normalised projectDir.
resolve(projectDir, segment) == projectDir \o <<"/">> \o segment

\* path.relative(from, to) for a file to below the directory from: what follows
\* from and the separator.
relative(from, to) ==
  CHOOSE rel \in {SubSeq(to, i, Len(to)) : i \in 1 .. Len(to) + 1} :
    from \o <<"/">> \o rel = to

\* .replace(/\.[^/.]+$/, ''): a final dot followed by one or more characters that are
\* neither a dot nor a slash is removed with what follows it.
removeExtension(s) ==
  LET dots == {i \in 1 .. Len(s) - 1 :
                 /\ s[i] = "."
                 /\ \A k \in i + 1 .. Len(s) : s[k] \notin {".", "/"}}
  IN IF dots = {} THEN s ELSE SubSeq(s, 1, (CHOOSE i \in dots : TRUE) - 1)

\* .replace(/index$/, ''): the characters index at the end of the string are removed.
removeIndex(s) ==
  LET index == <<"i", "n", "d", "e", "x">>
      at == Len(s) - Len(index) + 1
  IN IF at >= 1 /\ SubSeq(s, at, Len(s)) = index THEN SubSeq(s, 1, at - 1) ELSE s

\* const parameterizedRoute = path.relative(...).replace(...).replace(...), lines
\* 244-247, with projectDir from the loader options.
parameterizedRoute(this) ==
  removeIndex(removeExtension(
    relative(resolve(this.query.projectDir, <<"p", "a", "g", "e", "s">>), this.resourcePath)))

\* Mutant: the loader does not look at the resource query.
wrapDataFetchersLoaderNoMarker(this, userCode) ==
  IF ~isESM(userCode)
    THEN [kind |-> "source", code |-> userCode, statements |-> <<>>, parsed |-> FALSE]
    ELSE [kind |-> "synthesized", code |-> userCode, parsed |-> TRUE,
          statements |-> DefaultExportBlock(this.resourcePath,
                                            <<"/">> \o parameterizedRoute(this))]

\* wrapDataFetchersLoader.call(this, userCode): what it returns, and whether it
\* called makeAST.
wrapDataFetchersLoader(this, userCode) ==
  IF ~isESM(userCode) \/ this.resourceQuery = ProxyMarker
    THEN [kind |-> "source", code |-> userCode, statements |-> <<>>, parsed |-> FALSE]
  ELSE
    LET ast == userCode.ast
        found == getExportIdentifiers(ast)
        hasGetServerSideProps == Includes(found, "getServerSideProps")
        hasGetStaticProps == Includes(found, "getStaticProps")
        hasGetStaticPaths == Includes(found, "getStaticPaths")
        hasDataFetchingFunction ==
          hasGetServerSideProps \/ hasGetStaticProps \/ hasGetStaticPaths
        exportedIdentifiers == filterDataFetchers(found)
        route == <<"/">> \o parameterizedRoute(this)
    IN [kind |-> "synthesized", code |-> userCode, parsed |-> TRUE,
        statements |->
          (IF hasDataFetchingFunction THEN InstrumentationImports ELSE <<>>)
          \o (IF Len(exportedIdentifiers) > 0
                THEN PassthroughLine(exportedIdentifiers, this.resourcePath) ELSE <<>>)
          \o (IF hasDefaultExport(ast)
                THEN DefaultExportBlock(this.resourcePath, route) ELSE <<>>)
          \o (IF hasGetServerSideProps
                THEN DataFetcherBlock("getServerSideProps", this.resourcePath, route)
                ELSE <<>>)
          \o (IF hasGetStaticProps
                THEN DataFetcherBlock("getStaticProps", this.resourcePath, route)
                ELSE <<>>)
          \o (IF hasGetStaticPaths
                THEN DataFetcherBlock("getStaticPaths", this.resourcePath, route)
                ELSE <<>>)]

\* Whether a module the loader returned imports the page through the proxy marker.
ImportsProxy(out) ==
  \E i \in DOMAIN out.statements :
    out.statements[i].type \in {"ImportAs", "ExportFrom"}
      /\ out.statements[i].source.query = ProxyMarker

NoOutput ==
  [kind |-> "none", code |-> [ast |-> <<>>], statements |-> <<>>, parsed |-> FALSE]

\* webpack runs the loader on a page file.
runLoader(r) ==
  LET q == rq[r]
      out == wrapDataFetchersLoader(q.this, q.userCode)
  IN /\ r \in DOMAIN rq
     /\ q.pc = "loader"
     /\ Apply(r, [q |-> [q EXCEPT !.pc = "loaded", !.output = out, !.latest = out,
                                  !.parses = IF out.parsed THEN @ + 1 ELSE @],
                  t |-> transactions])

\* webpack resolves an import of "<resourcePath>?sentry-proxy-loader" in the module
\* the loader returned: the loader runs on the same file with that resource query.
loadProxyImport(r) ==
  LET q == rq[r]
      out == wrapDataFetchersLoader([q.this EXCEPT !.resourceQuery = ProxyMarker],
                                    q.userCode)
  IN /\ r \in DOMAIN rq
     /\ q.pc = "loaded"
     /\ ImportsProxy(q.latest)
     /\ q.proxyLoads < MaxProxyLoads
     /\ Apply(r, [q |-> [q EXCEPT !.latest = out, !.proxyLoads = @ + 1,
                                  !.parses = IF out.parsed THEN @ + 1 ELSE @],
                  t |-> transactions])

\* The project /app and its page file pages/u/[i].tsx.
ProjectDir == <<"/", "a", "p", "p">>
PagePath ==
  <<"/", "a", "p", "p", "/", "p", "a", "g", "e", "s", "/", "u", "/", "[", "i", "]", ".", "t", "s", "x">>

\* Statements of user modules.
StatementForms ==
  {ExportNamedDeclaration(
     VariableDeclaration("const",
       <<ObjectPattern(<<Property("a", Identifier("a")), Property("k", Identifier("b"))>>)>>),
     <<>>, NoSource),
   ExportNamedDeclaration(FunctionDeclaration("getServerSideProps"), <<>>, NoSource),
   ExportNamedDeclaration(
     VariableDeclaration("const", <<Identifier("getStaticProps")>>), <<>>, NoSource),
   ExportNamedDeclaration(NoDeclaration,
     <<ExportSpecifier("c", "getStaticPaths"), ExportSpecifier("c", "c")>>, NoSource),
   ExportNamedDeclaration(NoDeclaration,
     <<ExportSpecifier("a", "default"), ExportSpecifier("a", "a")>>, NoSource),
   ExportNamedDeclaration(NoDeclaration, <<ExportSpecifier("default", "default")>>, "m"),
   ExportNamedDeclaration(NoDeclaration,
     <<ExportSpecifier("w", "default"), ExportSpecifier("getStaticProps", "getStaticProps")>>,
     "m"),
   ExportDefaultDeclaration(Identifier("d")),
   ExportDefaultDeclaration(ArrowFunctionExpression),
   ExportDefaultDeclaration(ClassDeclaration("C")),
   ExportAllDeclaration("ns", "m"),
   ExportAllDeclaration("default", "m"),
   ExportAllDeclaration(NoName, "m"),
   VariableDeclaration("const", <<Identifier("d")>>),
   ImportDeclaration("d", "m"),
   [type |-> "ExpressionStatement"]}

\* Every name a statement exports, default included.
RECURSIVE AllSpecifierNames(_)
AllSpecifierNames(specifiers) ==
  IF specifiers = <<>> THEN <<>>
  ELSE <<Head(specifiers).exported>> \o AllSpecifierNames(Tail(specifiers))
ExportedBy(node) ==
  CASE node.type = "ExportDefaultDeclaration" -> <<"default">>
    [] node.type = "ExportNamedDeclaration" ->
         (IF node.declaration = NoDeclaration THEN <<>>
          ELSE StatementExportIdentifiers([node EXCEPT !.specifiers = <<>>]))
           \o AllSpecifierNames(node.specifiers)
    [] OTHER -> StatementExportIdentifiers(node)
RECURSIVE AllExported(_)
AllExported(ast) ==
  IF ast = <<>> THEN <<>> ELSE ExportedBy(Head(ast)) \o AllExported(Tail(ast))

\* A module the parser accepts exports no name twice.
NoDuplicates(names) == \A i, j \in DOMAIN names : names[i] = names[j] => i = j
Modules ==
  {ast \in UNION {[1 .. n -> StatementForms] : n \in 0 .. MaxStatements} :
     NoDuplicates(AllExported(ast))}

LoaderRuns ==
  {[pc |-> "loader", userCode |-> [ast |-> ast],
    this |-> [resourceQuery |-> query, resourcePath |-> PagePath,
              query |-> [projectDir |-> ProjectDir]],
    output |-> NoOutput, latest |-> NoOutput, parses |-> 0, proxyLoads |-> 0] :
     ast \in Modules, query \in {"", ProxyMarker, "?raw"}}

InitLoader ==
  /\ tracing \in {FALSE}
  /\ moduleThis = "exports"
  /\ rq \in [OneRequest -> LoaderRuns]
  /\ transactions = <<>>

NextLoader ==
  \E r \in Requests :
    \/ runLoader(r)
    \/ loadProxyImport(r)

SpecLoader == InitLoader /\ [][NextLoader]_vars

\* ------------------------------------------------------ getExportIdentifiers
\* The programs of the table of getExportIdentifiers that export a declaration with
\* destructuring patterns, with the declaration kind (var, let, const) and the bound
\* names as parameters.  names holds the identifiers in the order in which the program text
\* contains them.
ExportDeclaration(kind, ids) ==
  <<ExportNamedDeclaration(VariableDeclaration(kind, ids), <<>>, NoSource)>>

\* export <kind> name1 = 1, name2 = 2;
PlainDeclarators(names) == <<Identifier(names[1]), Identifier(names[2])>>
\* { name1, bar: name2, someValue: { someNestedValue: name3 }, ...name4 }
ObjectWithRest(names) ==
  ObjectPattern(<<Property(names[1], Identifier(names[1])),
                  Property("bar", Identifier(names[2])),
                  Property("someValue",
                    ObjectPattern(<<Property("someNestedValue", Identifier(names[3]))>>)),
                  RestElement(Identifier(names[4]))>>)
\* [ name1, name2, ...name3 ]
ArrayWithRest(names) ==
  ArrayPattern(<<Identifier(names[1]), Identifier(names[2]),
                 RestElement(Identifier(names[3]))>>)
\* { foo: { bar: [{ baz: [name1, ...name2], ...name3 }, name4, name5] } }
DeepObject(names) ==
  ObjectPattern(<<Property("foo",
    ObjectPattern(<<Property("bar",
      ArrayPattern(<<ObjectPattern(<<Property("baz",
                       ArrayPattern(<<Identifier(names[1]),
                                      RestElement(Identifier(names[2]))>>)),
                       RestElement(Identifier(names[3]))>>),
                     Identifier(names[4]), Identifier(names[5])>>))>>))>>)
\* [{ a: { ...name1 }, b: [,name2] }, name3]
ArrayWithHole(names) ==
  ArrayPattern(<<ObjectPattern(<<Property("a",
                                   ObjectPattern(<<RestElement(Identifier(names[1]))>>)),
                                 Property("b",
                                   ArrayPattern(<<Hole, Identifier(names[2])>>))>>),
                 Identifier(names[3])>>)

\* The identifiers the programs are written with: the names of the table and the
\* property keys of its patterns, in every rotation.
NameOrders ==
  LET pool == <<"name1", "name2", "name3", "bar", "a", "name4", "b", "foo">>
  IN {[i \in DOMAIN pool |-> pool[((i + shift - 1) % Len(pool)) + 1]] :
        shift \in 0 .. Len(pool) - 1}

NoExports == <<"undefined">>
DestructuringPrograms ==
  UNION {
    {[pc |-> "exports", userCode |-> [ast |-> ExportDeclaration(kind, PlainDeclarators(names))],
      destructuring |-> TRUE, names |-> SubSeq(names, 1, 2), result |-> NoExports],
     [pc |-> "exports",
      userCode |-> [ast |-> ExportDeclaration(kind, <<ObjectWithRest(names)>>)],
      destructuring |-> TRUE, names |-> SubSeq(names, 1, 4), result |-> NoExports],
     [pc |-> "exports",
      userCode |-> [ast |-> ExportDeclaration(kind, <<ArrayWithRest(names)>>)],
      destructuring |-> TRUE, names |-> SubSeq(names, 1, 3), result |-> NoExports],
     [pc |-> "exports",
      userCode |-> [ast |-> ExportDeclaration(kind, <<DeepObject(names)>>)],
      destructuring |-> TRUE, names |-> SubSeq(names, 1, 5), result |-> NoExports],
     [pc |-> "exports",
      userCode |-> [ast |-> ExportDeclaration(kind, <<ArrayWithHole(names)>>)],
      destructuring |-> TRUE, names |-> SubSeq(names, 1, 3), result |-> NoExports],
     [pc |-> "exports",
      userCode |-> [ast |-> ExportDeclaration(kind,
                      <<ArrayWithHole(names), ObjectWithRest(SubSeq(names, 4, 7))>>)],
      destructuring |-> TRUE, names |-> SubSeq(names, 1, 7), result |-> NoExports],
     [pc |-> "exports",
      userCode |-> [ast |-> ExportDeclaration(kind, <<ArrayWithRest(names)>>)
                              \o ExportDeclaration("var", <<DeepObject(SubSeq(names, 4, 8))>>)],
      destructuring |-> TRUE, names |-> names, result |-> NoExports]} :
    kind \in {"var", "let", "const"}, names \in NameOrders}

\* Modules made of the statement forms, whether or not a parser accepts them.
ExportPrograms ==
  {[pc |-> "exports", userCode |-> [ast |-> ast], destructuring |-> FALSE,
    names |-> <<>>, result |-> NoExports] :
     ast \in UNION {[1 .. n -> StatementForms] : n \in 0 .. MaxStatements}}

\* expect(getExportIdentifiers(makeAST(program, true)))
getExportIdentifiersCall(r) ==
  /\ r \in DOMAIN rq
  /\ rq[r].pc = "exports"
  /\ rq[r].result = NoExports
  /\ rq' = [rq EXCEPT ![r].result = getExportIdentifiers(rq[r].userCode.ast)]
  /\ UNCHANGED <<tracing, moduleThis, transactions>>

InitExports ==
  /\ tracing \in {FALSE}
  /\ moduleThis = "exports"
  /\ rq \in [OneRequest -> DestructuringPrograms \cup ExportPrograms]
  /\ transactions = <<>>

NextExports == \E r \in Requests : getExportIdentifiersCall(r)

SpecExports == InitExports /\ [][NextExports]_vars

\* ------------------------------------------------------- findAvailibleAlias
\* Identifier names are sequences of characters here, so that the prefixing of the
\* loop is computed.  userAST is the sequence of the Identifier nodes of the module.

\* Mutant: the underscore is appended.
Suffixed(newName) == newName \o <<"_">>

\* `_${newName}`
Prefixed(newName) == <<"_">> \o newName

\* findIdentifiers(ast, name): the Identifier nodes whose name is name.
findIdentifiers(ast, name) ==
  SelectSeq(ast, LAMBDA node : node.type = "Identifier" /\ node.name = name)

\* The loop body of findAvailibleAlias, lines 144-151.
findAvailibleAliasStep(r) ==
  /\ r \in DOMAIN rq
  /\ rq[r].pc = "alias"
  /\ ~rq[r].foundAvailableName
  /\ LET newName == Prefixed(rq[r].newName)
         existingIdentifiers == findIdentifiers(rq[r].userAST, newName)
     IN rq' = [rq EXCEPT ![r].newName = newName,
                         ![r].foundAvailableName = (Len(existingIdentifiers) = 0),
                         ![r].iterations = @ + 1]
  /\ UNCHANGED <<tracing, moduleThis, transactions>>

\* return newName, line 154.
findAvailibleAliasReturn(r) ==
  /\ r \in DOMAIN rq
  /\ rq[r].pc = "alias"
  /\ rq[r].foundAvailableName
  /\ rq' = [rq EXCEPT ![r].pc = "returned", ![r].result = rq[r].newName]
  /\ UNCHANGED <<tracing, moduleThis, transactions>>

\* The name to alias is g or _g; the module has up to MaxIdentifiers identifiers among
\* g, _g, __g, ___g, g_ and h.
AliasRuns ==
  {[pc |-> "alias", userAST |-> [i \in DOMAIN names |-> Identifier(names[i])],
    origName |-> origName, newName |-> origName, foundAvailableName |-> FALSE,
    iterations |-> 0, result |-> None] :
     origName \in {<<"g">>, <<"_", "g">>},
     names \in UNION {[1 .. n -> {<<"g">>, <<"_", "g">>, <<"_", "_", "g">>,
                                  <<"_", "_", "_", "g">>, <<"g", "_">>, <<"h">>}] :
                        n \in 0 .. MaxIdentifiers}}

InitAlias ==
  /\ tracing \in {FALSE}
  /\ moduleThis = "exports"
  /\ rq \in [OneRequest -> AliasRuns]
  /\ transactions = <<>>

NextAlias ==
  \E r \in Requests :
    \/ findAvailibleAliasStep(r)
    \/ findAvailibleAliasReturn(r)

SpecAlias == InitAlias /\ [][NextAlias]_vars

\* The loop is synchronous code: it runs until it returns.
FairnessAlias ==
  \A r \in OneRequest :
    WF_vars(findAvailibleAliasStep(r) \/ findAvailibleAliasReturn(r))
FairSpecAlias == SpecAlias /\ FairnessAlias

\* -------------------------------------------- findDefaultExportIdentifierNames
\* userAST.find(ExportDefaultDeclaration) ... .map(identifierNode => identifierNode.name)
RECURSIVE defaultExportIdentifiers(_)
defaultExportIdentifiers(ast) ==
  IF ast = <<>> THEN <<>>
  ELSE (IF /\ Head(ast).type = "ExportDefaultDeclaration"
           /\ Head(ast).declaration.type = "Identifier"
          THEN <<Head(ast).declaration.name>>
          ELSE <<>>) \o defaultExportIdentifiers(Tail(ast))

\* The local names of the specifiers that are exported as default.
RECURSIVE DefaultSpecifierLocals(_)
DefaultSpecifierLocals(specifiers) ==
  IF specifiers = <<>> THEN <<>>
  ELSE (IF Head(specifiers).exported = "default" THEN <<Head(specifiers).local>>
        ELSE <<>>) \o DefaultSpecifierLocals(Tail(specifiers))

\* userAST.find(ExportSpecifier) ... .map(localNode => localNode.name)
RECURSIVE namedDefaultExportIdentifiers(_)
namedDefaultExportIdentifiers(ast) ==
  IF ast = <<>> THEN <<>>
  ELSE (IF Head(ast).type = "ExportNamedDeclaration"
          THEN DefaultSpecifierLocals(Head(ast).specifiers)
          ELSE <<>>) \o namedDefaultExportIdentifiers(Tail(ast))

findDefaultExportIdentifierNames(userAST) ==
  defaultExportIdentifiers(userAST) \o namedDefaultExportIdentifiers(userAST)

\* The names a module binds: its declarations, exported or not, and its imports.
RECURSIVE LocalBindings(_)
LocalBindings(ast) ==
  IF ast = <<>> THEN {}
  ELSE LET node == Head(ast)
           declaration ==
             IF node.type \in {"ExportNamedDeclaration", "ExportDefaultDeclaration"}
               THEN node.declaration ELSE node
           names ==
             CASE declaration.type = "VariableDeclaration" ->
                    PatternsIdentifiers(declaration.declarations)
               [] declaration.type \in {"FunctionDeclaration", "ClassDeclaration"} ->
                    <<declaration.id>>
               [] declaration.type = "ImportDeclaration" -> <<declaration.local>>
               [] OTHER -> <<>>
       IN {names[i] : i \in DOMAIN names} \cup LocalBindings(Tail(ast))

\* The names a module refers to as its own when it exports them.
RECURSIVE ExportedLocals(_)
ExportedLocals(ast) ==
  IF ast = <<>> THEN {}
  ELSE LET node == Head(ast)
       IN (CASE node.type = "ExportDefaultDeclaration"
                  /\ node.declaration.type = "Identifier" -> {node.declaration.name}
             [] node.type = "ExportNamedDeclaration" /\ node.source = NoSource ->
                  {node.specifiers[i].local : i \in DOMAIN node.specifiers}
             [] OTHER -> {}) \cup ExportedLocals(Tail(ast))

\* The statements of the four inputs of the script, and two more forms of a default
\* export.
DefaultForms ==
  {ImportDeclaration("asdf", "asdf"),
   ExportDefaultDeclaration(ArrowFunctionExpression),
   VariableDeclaration("const", <<Identifier("asdf")>>),
   ExportDefaultDeclaration(Identifier("asdf")),
   VariableDeclaration("const", <<Identifier("other")>>),
   ExportNamedDeclaration(VariableDeclaration("const", <<Identifier("a")>>), <<>>, NoSource),
   ExportNamedDeclaration(NoDeclaration,
     <<ExportSpecifier("other", "other"), ExportSpecifier("asdf", "default")>>, NoSource),
   ExportNamedDeclaration(NoDeclaration, <<ExportSpecifier("wohoo", "default")>>, "asdf"),
   ExportNamedDeclaration(NoDeclaration, <<ExportSpecifier("default", "default")>>, "m"),
   ExportDefaultDeclaration(ClassDeclaration("C")),
   ExportDefaultDeclaration(Literal)}

\* Modules a parser accepts and that link: no name is exported twice, and a name the
\* module exports as its own is bound in it.
DefaultPrograms ==
  {ast \in UNION {[1 .. n -> DefaultForms] : n \in 0 .. MaxStatements + 1} :
     /\ NoDuplicates(AllExported(ast))
     /\ ExportedLocals(ast) \subseteq LocalBindings(ast)}

findDefaultExportIdentifierNamesCall(r) ==
  /\ r \in DOMAIN rq
  /\ rq[r].pc = "defaultNames"
  /\ rq[r].result = NoExports
  /\ rq' = [rq EXCEPT ![r].result = findDefaultExportIdentifierNames(rq[r].userCode.ast)]
  /\ UNCHANGED <<tracing, moduleThis, transactions>>

InitDefaultNames ==
  /\ tracing \in {FALSE}
  /\ moduleThis = "exports"
  /\ rq \in [OneRequest -> {[pc |-> "defaultNames", userCode |-> [ast |-> ast],
                            result |-> NoExports] : ast \in DefaultPrograms}]
  /\ transactions = <<>>

NextDefaultNames == \E r \in Requests : findDefaultExportIdentifierNamesCall(r)

SpecDefaultNames == InitDefaultNames /\ [][NextDefaultNames]_vars

\* -------------------------------------------------- withSentryGetInitialProps
\* Values of properties: typeof, a name that stands for the identity of a function,
\* and what a closure has captured.
Value(type, name, captured) == [type |-> type, name |-> name, captured |-> captured]
Undefined == Value("undefined", "", <<>>)
\* A property: absent, or an own data property with its value and enumerability.
NoProperty == [own |-> FALSE, value |-> Undefined, enumerable |-> FALSE]
DataProperty(value, enumerable) == [own |-> TRUE, value |-> value, enumerable |-> enumerable]

\* withSentryGetInitialProps(origGetInitialProps, defaultImport, path): the async
\* closure over its three arguments, or defaultImport.getInitialProps.
withSentryGetInitialProps(origGetInitialProps, defaultImport, path) ==
  IF defaultImport.getInitialProps.value.type = "function"
    THEN Value("function", "wrapper", <<origGetInitialProps.name, defaultImport.name, path>>)
    ELSE defaultImport.getInitialProps.value

\* The module the loader returned is evaluated.  Its imports are hoisted; a statement
\* that refers to a namespace the module does not import throws a ReferenceError, and
\* the module then has no exports.  The default-export block defines getInitialProps
\* on the object the user module exports as default.
evaluateModule(r) ==
  LET q == rq[r]
      st == q.output.statements
      imported == {st[i].local : i \in {j \in DOMAIN st : st[j].type = "ImportNamespace"}}
      referred == {st[i].namespace :
                     i \in {j \in DOMAIN st : st[j].type \in {"DefineProperty", "ExportConst"}}}
      define == {i \in DOMAIN st : st[i].type = "DefineProperty"}
      object == q.defaultExport
      defined ==
        IF define = {} THEN object
        ELSE LET d == st[CHOOSE i \in define : TRUE]
             IN [object EXCEPT !.getInitialProps =
                   DataProperty(withSentryGetInitialProps(object.getInitialProps.value,
                                                          object, d.args[3]),
                                d.enumerable)]
  IN /\ r \in DOMAIN rq
     /\ q.pc = "loaded"
     /\ q.output.kind = "synthesized"
     /\ q.exports.status = "none"
     /\ Apply(r, [q |-> IF referred \subseteq imported
                          THEN [q EXCEPT !.defaultExport = defined,
                                         !.exports = [status |-> "evaluated",
                                                      default |-> defined.name]]
                          ELSE [q EXCEPT !.exports = [status |-> "ReferenceError",
                                                      default |-> ""]],
                  t |-> transactions])

\* What the user's getInitialProps returns for its arguments.
origGetInitialPropsResult(this, args) == <<"props", this>> \o args

\* The framework calls getInitialProps of the page's default export.  The wrapper
\* calls origGetInitialProps.call(defaultImport, ...args) and resolves with what that
\* returns.
getInitialPropsCall(r, args) ==
  LET q == rq[r]
      f == q.defaultExport.getInitialProps.value
  IN /\ r \in DOMAIN rq
     /\ q.pc = "loaded"
     /\ q.exports.status = "evaluated"
     /\ f.type = "function"
     /\ Len(q.returns) < MaxCalls
     /\ LET this == IF f.name = "wrapper" THEN f.captured[2] ELSE q.exports.default
            callee == IF f.name = "wrapper" THEN f.captured[1] ELSE f.name
            result == origGetInitialPropsResult(this, args)
        IN Apply(r, [q |-> [q EXCEPT !.calls = Append(@, [callee |-> callee, this |-> this,
                                                         args |-> args, result |-> result]),
                                     !.returns = Append(@, [args |-> args,
                                                            resolved |-> result])],
                     t |-> transactions])

\* Pages: a module with a default export that is not a namespace re-exported as
\* default, and the object it exports, with getInitialProps a function (a static
\* method is not enumerable), another value, or absent.
PageRuns ==
  {[pc |-> "loader", userCode |-> [ast |-> ast],
    this |-> [resourceQuery |-> "", resourcePath |-> PagePath,
              query |-> [projectDir |-> ProjectDir]],
    output |-> NoOutput, latest |-> NoOutput, parses |-> 0, proxyLoads |-> 0,
    defaultExport |-> [name |-> "Page", render |-> DataProperty(Value("function", "render", <<>>), FALSE),
                       getInitialProps |-> property],
    original |-> property,
    exports |-> [status |-> "none", default |-> ""],
    calls |-> <<>>, returns |-> <<>>] :
     ast \in {m \in Modules : /\ Includes(AllExported(m), "default")
                              /\ ~Includes(getExportIdentifiers(m), "default")},
     property \in {NoProperty,
                   DataProperty(Value("function", "origGetInitialProps", <<>>), TRUE),
                   DataProperty(Value("function", "origGetInitialProps", <<>>), FALSE),
                   DataProperty(Value("object", "null", <<>>), TRUE),
                   DataProperty(Undefined, TRUE)}}

InitPage ==
  /\ tracing \in {FALSE}
  /\ moduleThis = "exports"
  /\ rq \in [OneRequest -> PageRuns]
  /\ transactions = <<>>

NextPage ==
  \E r \in Requests :
    \/ runLoader(r)
    \/ evaluateModule(r)
    \/ \E args \in {<<"ctx">>, <<"ctx", "extra">>} : getInitialPropsCall(r, args)

SpecPage == InitPage /\ [][NextPage]_vars

\* ------------------------------------------------------- parameterizedRoute
\* Page files, relative to the pages directory.
PageFiles ==
  {\* index.tsx
   <<"i", "n", "d", "e", "x", ".", "t", "s", "x">>,
   \* api/users/[id].ts
   <<"a", "p", "i", "/", "u", "s", "e", "r", "s", "/", "[", "i", "d", "]", ".", "t", "s">>,
   \* u/[i].tsx
   <<"u", "/", "[", "i", "]", ".", "t", "s", "x">>,
   \* blog/index.js
   <<"b", "l", "o", "g", "/", "i", "n", "d", "e", "x", ".", "j", "s">>,
   \* about.tsx
   <<"a", "b", "o", "u", "t", ".", "t", "s", "x">>,
   \* reindex.tsx
   <<"r", "e", "i", "n", "d", "e", "x", ".", "t", "s", "x">>,
   \* docs/v1.2/intro.mdx
   <<"d", "o", "c", "s", "/", "v", "1", ".", "2", "/", "i", "n", "t", "r", "o", ".", "m", "d", "x">>}

\* The loader runs on each page file of two projects, for the modules of one
\* statement at most.
RouteRuns ==
  {[pc |-> "loader", userCode |-> [ast |-> ast],
    this |-> [resourceQuery |-> "",
              resourcePath |-> resolve(resolve(projectDir, <<"p", "a", "g", "e", "s">>), page),
              query |-> [projectDir |-> projectDir]],
    output |-> NoOutput, latest |-> NoOutput, parses |-> 0, proxyLoads |-> 0] :
     ast \in {m \in Modules : Len(m) <= 1},
     page \in PageFiles,
     projectDir \in {ProjectDir, <<"/", "s", "r", "v", "/", "w", "e", "b">>}}

InitRoutes ==
  /\ tracing \in {FALSE}
  /\ moduleThis = "exports"
  /\ rq \in [OneRequest -> RouteRuns]
  /\ transactions = <<>>

NextRoutes == \E r \in Requests : runLoader(r)

SpecRoutes == InitRoutes /\ [][NextRoutes]_vars

\* ------------------------------------------------------------------- claims
WithSentryLayers(h) == {j \in DOMAIN h : h[j].type = "withSentry"}
EndTasks(q) == {i \in DOMAIN q.tasks : q.tasks[i].kind = "end"}
CatchTasks(q) == {i \in DOMAIN q.tasks : q.tasks[i].kind = "catch"}

\* C1: transaction.finish() is called at most once on the transaction attached to a
\* response, whatever the handler and the framework do (return, throw, res.end()
\* zero, one or several times, res.end() and then a throw), and that transaction has
\* been finished before the response's own end runs.
C1_FinishAtMostOnce ==
  /\ \A ref \in DOMAIN transactions : transactions[ref].finishCalls <= 1
  /\ \A r \in DOMAIN rq :
       (rq[r].origEndCalls > 0 /\ rq[r].res.tx # NoTx)
         => transactions[rq[r].res.tx].finishCalls >= 1

\* C2 (as claimed): the events of one request occur in the fixed order
\* startTransaction, execution of the original handler, transaction.finish, flush,
\* original res.end, and no run has an event of this list after one that comes later
\* in it.
C2_FixedOrder == \A r \in DOMAIN rq : rq[r].res.tx # NoTx => ~rq[r].reordered

\* C2 (amended): startTransaction comes before the original handler is called, every
\* transaction.finish after the handler was called, every flush of a run of
\* finishSentryProcessing that holds a transaction after that run's finish, and every
\* call of the original res.end after the flush of each wrapper around it has
\* settled.
C2_Precedence ==
  \A r \in DOMAIN rq :
    LET q == rq[r]
    IN /\ (q.handlerCalls > 0 /\ tracing /\ q.hasScope)
            => \A j \in WithSentryLayers(q.handler) :
                 \E ref \in Started(transactions, r) : transactions[ref].layer = j
       /\ \A ref \in Started(transactions, r) :
            transactions[ref].finishCalls > 0
              => (q.pc # "call" \/ q.layer > transactions[ref].layer)
       /\ \A i \in DOMAIN q.tasks :
            (q.tasks[i].st = "flush" /\ q.tasks[i].tx # NoTx)
              => transactions[q.tasks[i].tx].finishCalls >= 1
       /\ q.res.tx # NoTx => q.flushStarted <= transactions[q.res.tx].finishCalls
       /\ q.origEndCalls * q.res.endWraps <= q.flushSettled

\* The error path and the framework's res.end() have both run to the end on a
\* response that carries a transaction.
C2_Witness ==
  \E r \in DOMAIN rq :
    /\ rq[r].thrown # NoValue
    /\ rq[r].result.kind = "rejected"
    /\ rq[r].origEndCalls >= 1
    /\ rq[r].res.tx # NoTx
    /\ transactions[rq[r].res.tx].finishCalls >= 2

\* C3 (as claimed): when the original handler throws, captureException is called
\* exactly once for the request, res.statusCode is 500 and statusMessage 'Internal
\* Server Error', and the status recorded on the transaction is 500.
C3_CaptureOnce ==
  \A r \in DOMAIN rq :
    rq[r].thrown # NoValue
      => /\ rq[r].captureCalls = 1
         /\ rq[r].res.statusCode = ERROR_STATUS
         /\ rq[r].res.statusMessage = "Internal Server Error"
         /\ rq[r].res.tx # NoTx => transactions[rq[r].res.tx].status = ERROR_STATUS

\* C3 (amended): when the original handler throws, every withSentry layer whose catch
\* block has run has called captureException exactly once if the request has a
\* current scope and not at all if it has none, and has set res.statusCode to 500 and
\* statusMessage to 'Internal Server Error' before finishSentryProcessing read the
\* status, so the status recorded on the transaction is 500.
C3_CapturePerLayer ==
  \A r \in DOMAIN rq :
    rq[r].thrown # NoValue
      => /\ rq[r].caught >= 1
         /\ rq[r].caught <= Cardinality(WithSentryLayers(rq[r].handler))
         /\ rq[r].captureCalls = IF rq[r].hasScope THEN rq[r].caught ELSE 0
         /\ rq[r].res.statusCode = ERROR_STATUS
         /\ rq[r].res.statusMessage = "Internal Server Error"
         /\ rq[r].res.tx # NoTx => transactions[rq[r].res.tx].status = ERROR_STATUS

\* A handler wrapped once has thrown, with a scope and a transaction whose status was
\* 200 when the handler called res.end() before throwing.
C3_Witness ==
  \E r \in DOMAIN rq :
    /\ rq[r].thrown # NoValue
    /\ rq[r].captureCalls = 1
    /\ rq[r].endCalls >= 1
    /\ rq[r].res.tx # NoTx
    /\ transactions[rq[r].res.tx].status = ERROR_STATUS
    /\ transactions[rq[r].res.tx].finishCalls >= 1

\* Whether the error path of request record q is through: every catch block has
\* awaited its run of finishSentryProcessing (finish, when there is a transaction,
\* and a settled flush).
ErrorPathDone(q) ==
  /\ q.caught >= 1
  /\ CatchTasks(q) = {}
  /\ q.flushSettled >= q.caught
  /\ q.res.tx # NoTx => transactions[q.res.tx].finishCalls >= 1

\* C4 (as claimed): when the original handler throws e, object or primitive, the
\* promise of the wrapped handler never resolves, rejects with that same value e, and
\* rejects only after finishSentryProcessing has completed.
C4_RejectsWithSameValue ==
  \A r \in DOMAIN rq :
    rq[r].thrown # NoValue
      => /\ rq[r].result.kind # "resolved"
         /\ rq[r].result.kind = "rejected"
              => (rq[r].result.value = rq[r].thrown /\ ErrorPathDone(rq[r]))

\* C4 (amended): when the original handler throws e, the promise of the wrapped
\* handler never resolves and rejects, only after finishSentryProcessing has
\* completed, with objectify(e): e itself when e is an object, the wrapper object of
\* e when e is a primitive.
C4_RejectsWithObjectified ==
  \A r \in DOMAIN rq :
    rq[r].thrown # NoValue
      => /\ rq[r].result.kind # "resolved"
         /\ rq[r].result.kind = "rejected"
              => /\ rq[r].result.value =
                      (IF rq[r].thrown.kind = "primitive"
                         THEN [kind |-> "wrapper", val |-> rq[r].thrown.val]
                         ELSE rq[r].thrown)
                 /\ ErrorPathDone(rq[r])

\* The wrapped handler has rejected after a primitive was thrown, with a transaction.
C4_Witness ==
  \E r \in DOMAIN rq :
    /\ rq[r].thrown.kind = "primitive"
    /\ rq[r].result.kind = "rejected"
    /\ rq[r].res.tx # NoTx

\* C5: with requests interleaved in any order, setHttpStatus and finish are called on
\* a transaction only on behalf of the request that started it: the transaction on a
\* response, and the one held by each of its runs of finishSentryProcessing, was
\* started for that request, and no other request has called a method on it.
C5_OwnTransactionOnly ==
  /\ \A ref \in DOMAIN transactions : transactions[ref].callers \subseteq {ref[1]}
  /\ \A r \in DOMAIN rq :
       /\ rq[r].res.tx # NoTx => rq[r].res.tx \in Started(transactions, r)
       /\ \A i \in DOMAIN rq[r].tasks :
            rq[r].tasks[i].tx # NoTx => rq[r].tasks[i].tx \in Started(transactions, r)

\* Two requests were in flight together and the transaction on each response has been
\* finished, one with status 200 and the other, whose handler threw, with status 500.
C5_Witness ==
  \E r1, r2 \in DOMAIN rq :
    /\ r1 # r2
    /\ rq[r1].res.tx # NoTx /\ rq[r2].res.tx # NoTx
    /\ transactions[rq[r1].res.tx].finishCalls >= 1
    /\ transactions[rq[r2].res.tx].finishCalls >= 1
    /\ transactions[rq[r1].res.tx].statusAtFinish = OK_STATUS
    /\ transactions[rq[r2].res.tx].statusAtFinish = ERROR_STATUS

C7_OrigEndEventually ==
  \A r \in OneRequest, k \in 1 .. MaxEndCalls :
    (rq[r].endCalls >= k) ~> (rq[r].origEndCalls >= k)

\* The response's own end has run although a flush before it rejected, on a response
\* that carries a transaction, and no run of finishSentryProcessing is left pending.
C7_Witness ==
  \E r \in DOMAIN rq :
    /\ rq[r].origEndCalls >= 1
    /\ rq[r].flushRejects >= 1
    /\ rq[r].res.tx # NoTx
    /\ rq[r].tasks = <<>>

\* C8: a handler that is already the result of withSentry(origHandler) is not wrapped
\* in withSentry a second time by withSentryAPI: one request through the handler
\* withSentryAPI returns starts at most one transaction and wraps res.end only once.
C8_WrappedOnce ==
  \A r \in DOMAIN rq :
    rq[r].handler = withSentryAPI(withSentry(origFunction), Route)
      => /\ Cardinality(Started(transactions, r)) <= 1
         /\ rq[r].res.endWraps <= 1

\* The method part of the name C9 states, for each method of Methods.
MethodName(method) ==
  CASE method = None -> <<"G", "E", "T">>
    [] method = <<>> -> <<"G", "E", "T">>
    [] method = <<"g", "e", "t">> -> <<"G", "E", "T">>
    [] method = <<"P", "u", "t">> -> <<"P", "U", "T">>
    [] method = <<"P", "O", "S", "T">> -> <<"P", "O", "S", "T">>

\* C9: with tracing enabled and the parameterized route R set on the handler by
\* withSentryAPI, every transaction started for a request is named '<METHOD> R', with
\* the method in upper case and GET when the request has none, has op 'http.server'
\* and metadata source 'route'; R is preferred over anything derived from the url.
C9_NamedByRoute ==
  \A r \in DOMAIN rq :
    (tracing /\ \E j \in DOMAIN rq[r].handler : rq[r].handler[j].route = Route)
      => \A ref \in Started(transactions, r) :
           /\ transactions[ref].name = MethodName(rq[r].req.method) \o <<" ">> \o Route
           /\ transactions[ref].op = "http.server"
           /\ transactions[ref].source = "route"

\* C10: with tracing enabled, a call of the function withSentryGetServerSideProps(
\* origFunction, route) returned has started a transaction named by the parameterized
\* route, with op 'nextjs.data.server' and metadata source 'route', by the time the
\* original function is called.
C10_StartsRouteTransaction ==
  \A r \in DOMAIN rq :
    (tracing /\ rq[r].pc \in {"original", "resolved", "rejected"} /\ rq[r].origCalls >= 1)
      => \E ref \in Started(transactions, r) :
           /\ transactions[ref].name = rq[r].path
           /\ transactions[ref].op = "nextjs.data.server"
           /\ transactions[ref].source = "route"

\* C11: the loader returns its input unchanged, without parsing it, whenever the
\* resource query is '?sentry-proxy-loader' or the source has no module syntax; so the
\* load of '<resourcePath>?sentry-proxy-loader' that the synthesized module asks for
\* returns the user's code and asks for no further load.
C11_ProxyLoadUnchanged ==
  \A r \in DOMAIN rq :
    LET q == rq[r]
    IN /\ (q.pc = "loaded" /\ (q.this.resourceQuery = ProxyMarker \/ ~isESM(q.userCode)))
            => (q.output.kind = "source" /\ q.output.code = q.userCode /\ q.parses = 0)
       /\ q.proxyLoads >= 1
            => /\ q.latest.kind = "source"
               /\ q.latest.code = q.userCode
               /\ ~ImportsProxy(q.latest)
               /\ q.proxyLoads = 1
               /\ q.parses = 1

\* A page was transformed and its synthesized module's import through the proxy
\* marker has been loaded.
C11_Witness ==
  \E r \in DOMAIN rq :
    /\ rq[r].output.kind = "synthesized"
    /\ rq[r].proxyLoads = 1
    /\ rq[r].userCode.ast # <<>>

\* The blocks of a synthesized module, in the order C12 states.
BlockOrder ==
  [imports |-> 1, passthrough |-> 2, default |-> 3, getServerSideProps |-> 4,
   getStaticProps |-> 5, getStaticPaths |-> 6]

\* C12: in the module synthesized for a page with a default export, the blocks appear
\* in the order imports, passthrough line, default-export block, getServerSideProps,
\* getStaticProps, getStaticPaths block, and every statement that refers to an
\* instrumentation namespace comes after the import of that namespace.
C12_NamespacesImported ==
  \A r \in DOMAIN rq :
    LET st == rq[r].output.statements
    IN (rq[r].output.kind = "synthesized"
          /\ Includes(AllExported(rq[r].userCode.ast), "default"))
         => /\ \A i, j \in DOMAIN st :
                 i < j => BlockOrder[st[i].block] <= BlockOrder[st[j].block]
            /\ \A j \in DOMAIN st :
                 "namespace" \in DOMAIN st[j]
                   => \E i \in 1 .. j - 1 :
                        st[i].type = "ImportNamespace" /\ st[i].local = st[j].namespace

\* The names the statements of a synthesized module export, in order.
RECURSIVE OutputExports(_)
OutputExports(st) ==
  IF st = <<>> THEN <<>>
  ELSE (CASE Head(st).type = "ExportFrom" -> Head(st).names
          [] Head(st).type = "ExportAs" -> <<Head(st).exported>>
          [] Head(st).type = "ExportConst" -> <<Head(st).name>>
          [] OTHER -> <<>>) \o OutputExports(Tail(st))
Occurrences(names, name) == Cardinality({i \in DOMAIN names : names[i] = name})

\* C13: the passthrough line of a synthesized module never lists getServerSideProps,
\* getStaticProps or getStaticPaths; each of these that the user module exports is
\* exported exactly once, as the result of its wrapper; every other name found in the
\* user module is exported exactly once, by the passthrough line, from
\* '<resourcePath>?sentry-proxy-loader'.
C13_ExportedOnce ==
  \A r \in DOMAIN rq :
    LET st == rq[r].output.statements
        found == getExportIdentifiers(rq[r].userCode.ast)
    IN rq[r].output.kind = "synthesized"
         => /\ \A i \in DOMAIN st :
                 st[i].type = "ExportFrom"
                   => /\ \A k \in DOMAIN st[i].names : st[i].names[k] \notin DataFetchers
                      /\ st[i].source = ProxyOf(rq[r].this.resourcePath)
            /\ \A k \in DOMAIN found :
                 /\ Occurrences(OutputExports(st), found[k]) = 1
                 /\ \E i \in DOMAIN st :
                      IF found[k] \in DataFetchers
                        THEN /\ st[i].type = "ExportConst"
                             /\ st[i].name = found[k]
                             /\ st[i].wrapper = WrapperOf[found[k]]
                             /\ st[i].args[1] = AliasOf[found[k]]
                        ELSE /\ st[i].type = "ExportFrom"
                             /\ Includes(st[i].names, found[k])

\* C14: getExportIdentifiers returns every name at most once and never the name
\* default: a specifier exported as default, 'export { default } from "m"' and every
\* form of 'export default' contribute nothing.
C14_NeverDefault ==
  \A r \in DOMAIN rq :
    (rq[r].pc = "exports" /\ rq[r].result # NoExports)
      => /\ NoDuplicates(rq[r].result)
         /\ ~Includes(rq[r].result, "default")

\* C15: for a program that exports variable declarations with nested array and object
\* patterns, getExportIdentifiers returns exactly the identifiers bound by the
\* patterns, in the order of the program text, whatever the declaration kind and the
\* number of declarators; a property key that is no binding is not returned.
C15_PatternLeaves ==
  \A r \in DOMAIN rq :
    (rq[r].pc = "exports" /\ rq[r].destructuring /\ rq[r].result # NoExports)
      => rq[r].result = rq[r].names

\* getExportIdentifiers has returned the seven names of a let declaration with two
\* declarators, of which one has an elided element and the other a renamed property.
C15_Witness ==
  \E r \in DOMAIN rq :
    /\ rq[r].pc = "exports" /\ rq[r].destructuring
    /\ rq[r].result = rq[r].names /\ Len(rq[r].result) = 7
    /\ rq[r].userCode.ast[1].declaration.kind = "let"
    /\ Len(rq[r].userCode.ast[1].declaration.declarations) = 2

Underscores(k) == [i \in 1 .. k |-> "_"]
Named(ast, name) == \E i \in DOMAIN ast : ast[i].name = name

\* C16: findAvailibleAlias terminates, and what it returns is the name it was given
\* prefixed by k >= 1 underscores, for the smallest such k for which the module has
\* no identifier of that name; it is never the given name and never the name of an
\* identifier of the module.
C16_SmallestFreeAlias ==
  /\ [](\A r \in DOMAIN rq :
         (rq[r].pc = "returned")
           => /\ \E k \in 1 .. Len(rq[r].userAST) + 1 :
                   /\ rq[r].result = Underscores(k) \o rq[r].origName
                   /\ \A j \in 1 .. k - 1 :
                        Named(rq[r].userAST, Underscores(j) \o rq[r].origName)
              /\ rq[r].result # rq[r].origName
              /\ ~Named(rq[r].userAST, rq[r].result))
  /\ <>(\A r \in DOMAIN rq : rq[r].pc = "returned")

\* findAvailibleAlias has returned ___g for g in a module that has the identifiers _g
\* and __g.
C16_Witness ==
  \E r \in DOMAIN rq :
    /\ rq[r].pc = "returned"
    /\ rq[r].origName = <<"g">>
    /\ rq[r].result = <<"_", "_", "_", "g">>
    /\ rq[r].iterations = 3

\* C17: findDefaultExportIdentifierNames returns the identifier of every
\* 'export default <identifier>', followed by the local name of every specifier that
\* is exported as default, and nothing for an anonymous default or a default
\* declaration; every name it returns is a binding of the module itself, the one its
\* default export resolves to.
C17_LocalDefaultNames ==
  \A r \in DOMAIN rq :
    (rq[r].pc = "defaultNames" /\ rq[r].result # NoExports)
      => LET ast == rq[r].userCode.ast
             result == rq[r].result
             identifiers ==
               {i \in DOMAIN ast : /\ ast[i].type = "ExportDefaultDeclaration"
                                   /\ ast[i].declaration.type = "Identifier"}
             aliased ==
               {<<i, k>> \in (DOMAIN ast) \X (1 .. 2) :
                  /\ ast[i].type = "ExportNamedDeclaration"
                  /\ k \in DOMAIN ast[i].specifiers
                  /\ ast[i].specifiers[k].exported = "default"}
         IN /\ Len(result) = Cardinality(identifiers) + Cardinality(aliased)
            /\ \A i \in identifiers :
                 \E n \in 1 .. Cardinality(identifiers) :
                   result[n] = ast[i].declaration.name
            /\ \A p \in aliased :
                 \E n \in Cardinality(identifiers) + 1 .. Len(result) :
                   result[n] = ast[p[1]].specifiers[p[2]].local
            /\ \A n \in DOMAIN result : result[n] \in LocalBindings(ast)

\* C18: the default-export block exports the object the user module exports as
\* default and changes nothing of it but getInitialProps.  If getInitialProps was a
\* function, it becomes a wrapper that calls the original with the default export as
\* this and with the arguments it was given, and returns what the original returns;
\* otherwise the value of getInitialProps stays what it was and no wrapper is
\* installed.
C18_WrapsGetInitialProps ==
  \A r \in DOMAIN rq :
    LET q == rq[r]
    IN (q.pc = "loaded" /\ q.output.kind = "synthesized" /\ q.exports.status # "none")
         => /\ q.exports.status = "evaluated"
            /\ q.exports.default = "Page"
            /\ q.defaultExport.render = DataProperty(Value("function", "render", <<>>), FALSE)
            /\ IF q.original.value.type = "function"
                 THEN /\ q.defaultExport.getInitialProps.value.name = "wrapper"
                      /\ Len(q.calls) = Len(q.returns)
                      /\ \A i \in DOMAIN q.returns :
                           /\ q.calls[i].callee = q.original.value.name
                           /\ q.calls[i].this = "Page"
                           /\ q.calls[i].args = q.returns[i].args
                           /\ q.returns[i].resolved = q.calls[i].result
                 ELSE /\ q.defaultExport.getInitialProps.value = q.original.value
                      /\ q.calls = <<>>

\* C19: when the handler is withSentryAPI(withSentry(origFunction), R), the route R
\* stored on the wrapped handler is the one read when the transaction is started, so
\* by the time the user's function runs the transaction attached to the response is
\* named '<METHOD> R' and not from the url, also for a request whose query values do
\* not occur in the url.
C19_ManualWrapUsesRoute ==
  \A r \in DOMAIN rq :
    (/\ tracing /\ rq[r].hasScope
     /\ rq[r].handler = withSentryAPI(withSentry(origFunction), Route)
     /\ rq[r].pc = "handler")
      => /\ rq[r].res.tx # NoTx
         /\ transactions[rq[r].res.tx].name
              = MethodName(rq[r].req.method) \o <<" ">> \o Route

\* The text of s with the first occurrence of pat replaced by the characters of rep.
FirstReplaced(s, pat, rep) ==
  LET hits == {i \in 1 .. Len(s) + 1 : OccursAt(s, pat, i)}
  IN IF hits = {} THEN s
     ELSE LET i == CHOOSE j \in hits : \A k \in hits : j <= k
          IN SubSeq(s, 1, i - 1) \o rep \o SubSeq(s, i + Len(pat), Len(s))
RECURSIVE Placeholders(_, _)
Placeholders(path, entries) ==
  IF entries = <<>> THEN path
  ELSE Placeholders(FirstReplaced(path, entries[1][2], <<"[">> \o entries[1][1] \o <<"]">>),
                    Tail(entries))

\* C20: when no parameterized route is at hand, the path of the transaction name is
\* the url up to its query string or fragment, in which, for each entry (key, value)
\* of req.query in order, the first occurrence of the value is replaced by '[key]':
\* one replacement at most per entry, each on the result of the entries before it.
C20_FallbackPath ==
  \A r \in DOMAIN rq :
    (/\ tracing /\ rq[r].hasScope
     /\ rq[r].handler = withSentry(origFunction)
     /\ rq[r].res.tx # NoTx)
      => transactions[rq[r].res.tx].name
           = MethodName(rq[r].req.method) \o <<" ">>
               \o Placeholders(stripUrlQueryAndFragment(rq[r].req.url),
                               rq[r].req.query.entries)

\* C21: in a run of finishSentryProcessing on a response that carries a transaction,
\* setHttpStatus(res.statusCode) is called first, transaction.finish() is called in a
\* later tick than the one in which finishSentryProcessing was called, and flush is
\* started only when that finish has been called: no such run has started its flush
\* while its transaction is unfinished.
C21_StatusThenFinishThenFlush ==
  /\ [](\A r \in DOMAIN rq : \A i \in DOMAIN rq[r].tasks :
         LET task == rq[r].tasks[i]
         IN task.tx # NoTx
              => /\ r \in transactions[task.tx].callers
                 /\ transactions[task.tx].status \in {OK_STATUS, ERROR_STATUS}
                 /\ task.st = "immediate" \/ transactions[task.tx].finishCalls >= 1
                 /\ transactions[task.tx].finishCalls >= 1
                      => transactions[task.tx].statusAtFinish \in {OK_STATUS, ERROR_STATUS})
  /\ [][\A ref \in DOMAIN transactions :
          transactions'[ref].finishCalls > transactions[ref].finishCalls
            => \E i \in DOMAIN rq[ref[1]].tasks :
                 /\ rq[ref[1]].tasks[i].st = "immediate"
                 /\ rq[ref[1]].tasks[i].tx = ref]_vars

\* A run of finishSentryProcessing with a transaction has started its flush, after the
\* one call of finish on that transaction.
C21_Witness ==
  \E r \in DOMAIN rq : \E i \in DOMAIN rq[r].tasks :
    /\ rq[r].tasks[i].tx # NoTx
    /\ rq[r].tasks[i].st = "flush"
    /\ transactions[rq[r].tasks[i].tx].finishCalls = 1

\* C22: when tracing is disabled or there is no current scope, no transaction is
\* started and none is attached to the response, the user's handler is called exactly
\* once, no run of finishSentryProcessing calls setHttpStatus or finish, and the
\* response's own end is called only by a step in which a flush started for that call
\* of res.end() settles.
C22_NoTracingStillFlushes ==
  /\ [](\A r \in DOMAIN rq :
         ~(tracing /\ rq[r].hasScope)
           => /\ Started(transactions, r) = {}
              /\ rq[r].res.tx = NoTx
              /\ rq[r].pc # "call" => rq[r].handlerCalls = 1
              /\ rq[r].pc = "call" => rq[r].handlerCalls = 0
              /\ \A i \in DOMAIN rq[r].tasks :
                   rq[r].tasks[i].tx = NoTx /\ rq[r].tasks[i].st = "flush"
              /\ rq[r].origEndCalls <= rq[r].endCalls
              /\ rq[r].origEndCalls <= rq[r].flushSettled)
  /\ [][\A r \in DOMAIN rq :
          (~(tracing /\ rq[r].hasScope) /\ rq'[r].origEndCalls > rq[r].origEndCalls)
            => /\ rq'[r].origEndCalls = rq[r].origEndCalls + 1
               /\ rq'[r].flushSettled = rq[r].flushSettled + 1
               /\ \E i \in DOMAIN rq[r].tasks :
                    rq[r].tasks[i].kind = "end" /\ rq[r].tasks[i].st = "flush"]_vars

\* With tracing disabled the handler has called res.end(), the flush has settled and
\* the response's own end has run, with no transaction.
C22_Witness ==
  \E r \in DOMAIN rq :
    /\ ~tracing /\ rq[r].hasScope
    /\ rq[r].handlerCalls = 1
    /\ rq[r].origEndCalls = 1
    /\ rq[r].flushSettled >= 1
    /\ transactions = <<>>

\* C23: every call of the wrapped res.end(args) leads to one call of the response's
\* own end, made on the same response with the same arguments in the same order, in
\* the step in which the run of finishSentryProcessing for that call resolves; no call
\* is dropped (each is done or still waiting for its run) and none is made twice.
C23_OrigEndOncePerCall ==
  /\ [](\A r \in DOMAIN rq :
         LET log == rq[r].origEndLog
             waiting == {rq[r].tasks[i].call :
                           i \in {j \in DOMAIN rq[r].tasks : rq[r].tasks[j].kind = "end"}}
             made == {log[n].call : n \in DOMAIN log}
         IN /\ Len(log) = rq[r].origEndCalls
            /\ \A n \in DOMAIN log :
                 /\ log[n].this = r
                 /\ log[n].args = EndArguments(log[n].call)
                 /\ \A m \in DOMAIN log : log[m].call = log[n].call => m = n
            /\ made \cup waiting = 1 .. rq[r].endCalls
            /\ made \cap waiting = {})
  /\ [][\A r \in DOMAIN rq :
          rq'[r].origEndCalls > rq[r].origEndCalls
            => /\ rq'[r].origEndCalls = rq[r].origEndCalls + 1
               /\ rq'[r].flushSettled = rq[r].flushSettled + 1
               /\ \E i \in DOMAIN rq[r].tasks :
                    /\ rq[r].tasks[i].kind = "end" /\ rq[r].tasks[i].st = "flush"
                    /\ rq[r].tasks[i].level = 1
                    /\ rq'[r].origEndLog[Len(rq'[r].origEndLog)].call
                         = rq[r].tasks[i].call]_vars

\* res.end(body, encoding) and res.end() were called on a response whose end is
\* wrapped twice, and the response's own end has run for both, the second call first.
C23_Witness ==
  \E r \in DOMAIN rq :
    /\ rq[r].res.endWraps = 2
    /\ Len(rq[r].origEndLog) = 2
    /\ rq[r].origEndLog[1] = [call |-> 2, this |-> r, args |-> <<>>]
    /\ rq[r].origEndLog[2] = [call |-> 1, this |-> r, args |-> <<"body", "utf8">>]

\* C24: when the user's handler returns or resolves with v without throwing, the
\* wrapped handler resolves with v, the user's handler was called exactly once, with
\* the request and the response the wrapper was called with, captureException was not
\* called, and res.statusCode and res.statusMessage are what they were.
C24_ReturnUnchanged ==
  \A r \in DOMAIN rq :
    (rq[r].returned # NoValue)
      => /\ rq[r].pc = "resolved"
         /\ rq[r].result = [kind |-> "resolved", value |-> rq[r].returned]
         /\ rq[r].handlerCalls = 1
         /\ rq[r].handlerArguments = << <<rq[r].req, "res">> >>
         /\ rq[r].captureCalls = 0 /\ rq[r].caught = 0
         /\ rq[r].res.statusCode = NewResponse.statusCode
         /\ rq[r].res.statusMessage = NewResponse.statusMessage

\* The user's handler has returned v through two withSentry layers, with a transaction
\* on the response, after it called res.end().
C24_Witness ==
  \E r \in DOMAIN rq :
    /\ rq[r].returned \in Returned
    /\ rq[r].result.kind = "resolved"
    /\ Cardinality({j \in DOMAIN rq[r].handler : rq[r].handler[j].type = "withSentry"}) = 2
    /\ rq[r].res.tx # NoTx
    /\ rq[r].endCalls >= 1

\* The route the claim gives for each page file: the path below pages, after a slash,
\* without its extension and without a last segment that is exactly index.
ClaimedRoutes ==
    {[page |-> <<"i", "n", "d", "e", "x", ".", "t", "s", "x">>,
      route |-> <<"/">>],
     [page |-> <<"a", "p", "i", "/", "u", "s", "e", "r", "s", "/", "[", "i", "d", "]", ".", "t", "s">>,
      route |-> <<"/", "a", "p", "i", "/", "u", "s", "e", "r", "s", "/", "[", "i", "d", "]">>],
     [page |-> <<"u", "/", "[", "i", "]", ".", "t", "s", "x">>,
      route |-> <<"/", "u", "/", "[", "i", "]">>],
     [page |-> <<"b", "l", "o", "g", "/", "i", "n", "d", "e", "x", ".", "j", "s">>,
      route |-> <<"/", "b", "l", "o", "g", "/">>],
     [page |-> <<"a", "b", "o", "u", "t", ".", "t", "s", "x">>,
      route |-> <<"/", "a", "b", "o", "u", "t">>],
     [page |-> <<"r", "e", "i", "n", "d", "e", "x", ".", "t", "s", "x">>,
      route |-> <<"/", "r", "e", "i", "n", "d", "e", "x">>],
     [page |-> <<"d", "o", "c", "s", "/", "v", "1", ".", "2", "/", "i", "n", "t", "r", "o", ".", "m", "d", "x">>,
      route |-> <<"/", "d", "o", "c", "s", "/", "v", "1", ".", "2", "/", "i", "n", "t", "r", "o">>]}

\* C25: the route the loader passes to the wrappers is a slash followed by the path
\* of the module relative to <projectDir>/pages, without the file extension and
\* without a trailing index: pages/index.tsx gives /, pages/api/users/[id].ts gives
\* /api/users/[id], and only a last segment that is exactly index is removed, so that
\* pages/reindex.tsx gives /reindex.
C25_RouteFromPath ==
  \A r \in DOMAIN rq :
    rq[r].output.kind = "synthesized"
      => LET st == rq[r].output.statements
             pages == resolve(rq[r].this.query.projectDir, <<"p", "a", "g", "e", "s">>)
         IN \A i \in DOMAIN st :
              st[i].type \in {"DefineProperty", "ExportConst"}
                => \E c \in ClaimedRoutes :
                     /\ rq[r].this.resourcePath = resolve(pages, c.page)
                     /\ st[i].args[Len(st[i].args)] = c.route
====
